---- MODULE Spec2Model ----
(***************************************************************************)
(* Conversation memory and scheduling subsystem of chordial.               *)
(*                                                                         *)
(* Persistent tables (users, platform_identities, conversation_history,    *)
(* compressed_messages, conversation_summaries, memories) are sequences of *)
(* rows; the in-process caches (ConversationManager._conversations,        *)
(* OnboardingService.onboarding_states, SchedulerService.user_contexts)    *)
(* are functions.  Wall-clock time is `now`, in minutes since a Monday     *)
(* 00:00 local time; the memory store measures its TTLs on the same clock. *)
(*                                                                         *)
(* Reading conventions.  Records are identified by the role of a field,    *)
(* not its spelling: user_id / user_uuid / uuid name the same column.  A   *)
(* value is modelled exactly where the code puts it: what is written, what *)
(* is read and what is passed as which argument are taken from the source  *)
(* as written.  Timestamps a single process takes with datetime.now() at   *)
(* insertion are strictly increasing at microsecond resolution, so within  *)
(* one value of `now` the row id refines created_at.                       *)
(***************************************************************************)
EXTENDS Integers, Sequences, FiniteSets, TLC

VARIABLES
  now,                \* datetime.now(), minutes
  ai_provider,        \* ChatService.ai_provider is set (not None)
  users,              \* users table: uuid -> row, or a row that does not exist
  identities,         \* platform_identities table (sequence of rows)
  onboarding_states,  \* OnboardingService.onboarding_states
  history,            \* conversation_history table (sequence of rows)
  next_history_id,    \* AUTOINCREMENT counter of conversation_history
  compressed,         \* compressed_messages table (sequence of rows)
  conversations,      \* ConversationManager._conversations
  user_contexts,      \* SchedulerService.user_contexts
  summaries,          \* conversation_summaries table (sequence of rows)
  sweeps,             \* running process_user_summaries calls
  memories,           \* memories table (sequence of rows, id = index)
  loop,               \* SchedulerService._running and run_scheduling_loop
  tasks,              \* running process_message / generate_scheduled_message
  ret                 \* what the last operation returned

vars == <<now, ai_provider, users, identities, onboarding_states, history,
          next_history_id,
          compressed, conversations, user_contexts, summaries, sweeps,
          memories, loop, tasks, ret>>

----------------------------------------------------------------------------
(* Bounds of the model *)

MaxHistory == 2
MaxUsers == 2
MaxSchedNow == 2640

(* Values *)

None == "None"
Discord == "discord"
Platforms == {Discord}
UUIDs == {"u1", "u2", "u3"}
UsableUUIDs == IF MaxUsers >= 3 THEN UUIDs
               ELSE IF MaxUsers = 2 THEN {"u1", "u2"} ELSE {"u1"}
PlatformUserIds == {"p1"}
\* generate_scheduled_message receives whatever its caller passes as
\* platform_user_id, so the id column ranges over both kinds of string
AnyId == PlatformUserIds \cup UUIDs

Range(s) == {s[i] : i \in DOMAIN s}

\* no handler of the chat service is running
IdleTask == [pc |-> "idle", user_uuid |-> "None",
             last_msg |-> [role |-> "None", content |-> [text |-> "none", len |-> 0],
                           message_type |-> "None", db_id |-> 0]]

IdleTasks == <<IdleTask, IdleTask>>

\* SchedulerService.__init__: _running is False and no loop has been started
IdleLoop ==
  [pc |-> "init", running |-> FALSE, platform |-> 0, pending |-> <<>>,
   current |-> <<>>, ticks |-> 0, delivered |-> {}, caught |-> 0]

Min(a, b) == IF a < b THEN a ELSE b

Max(a, b) == IF a > b THEN a ELSE b

Reverse(s) == [i \in 1..Len(s) |-> s[Len(s) + 1 - i]]

\* Python s[:n] for any integer n
SliceTo(s, n) ==
  LET stop == IF n < 0 THEN Max(Len(s) + n, 0) ELSE Min(n, Len(s))
  IN  SubSeq(s, 1, stop)

\* Python s[-n:] for n >= 0 (s[-0:] is s[0:], the whole list)
SliceLast(s, n) ==
  LET start == IF n = 0 THEN 0 ELSE Max(Len(s) - n, 0)
  IN  SubSeq(s, start + 1, Len(s))

\* Python s[:-n] for n >= 0 (s[:-0] is s[:0], the empty list)
SliceButLast(s, n) ==
  IF n = 0 THEN <<>> ELSE SubSeq(s, 1, Max(Len(s) - n, 0))

----------------------------------------------------------------------------
(* Configuration: config.py and the service constructors *)

DM_INTERVAL_MINUTES == 60
delay_after_ignored_hours == 24
quiet_hours_start == 21
quiet_hours_end == 8
min_length_to_compress == 100
truncate_length == 200
min_messages_to_summarize == 20
max_messages_per_summary == 50
default_weighting == 1
core_memory_weight == 999
max_messages_in_memory == 100
load_limit == 50

----------------------------------------------------------------------------
(* Text.  A content is the original text of a message, of a given length,  *)
(* or a text derived from an original by the compressor.                   *)

Orig(n) == [text |-> "orig", len |-> n]

\* the string OpenAIProvider.generate_response returns when the API call fails
ProviderApology == [text |-> "apology", len |-> 86]

\* what the compression model answers for a text of length n
ModelText(n) == [text |-> "model", len |-> n \div 4]

\* content[:200] + "..."
Truncated(c) == [text |-> "trunc", len |-> truncate_length + 3]

----------------------------------------------------------------------------
(* UserManager *)

UUIDOrder == <<"u1", "u2", "u3">>

\* an id that is no key of the users table
IsUserKey(user_uuid) == user_uuid \in DOMAIN users /\ users[user_uuid].exists

IdentityMatches(platform, platform_user_id) ==
  {i \in DOMAIN identities :
     /\ identities[i].platform = platform
     /\ identities[i].platform_user_id = platform_user_id}

\* query(...).first(): the index of the row with the least primary key, 0 if
\* there is none
FirstIdentity(platform, platform_user_id) ==
  LET m == IdentityMatches(platform, platform_user_id)
  IN  IF m = {} THEN 0 ELSE CHOOSE i \in m : \A j \in m : i <= j

is_new_user(platform, platform_user_id) ==
  FirstIdentity(platform, platform_user_id) = 0

UnusedUUIDs == {u \in UsableUUIDs : ~users[u].exists}

\* User(): a fresh uuid4
FreshUUID ==
  UUIDOrder[CHOOSE i \in 1..Len(UUIDOrder) :
              /\ UUIDOrder[i] \in UnusedUUIDs
              /\ \A j \in 1..(i - 1) : UUIDOrder[j] \notin UnusedUUIDs]

NoUserRow == [exists |-> FALSE, preferred_name |-> None, is_active |-> FALSE]

NewUserRow == [exists |-> TRUE, preferred_name |-> None, is_active |-> TRUE]

\* a lookup that never finds the identity
FindsNoUser(platform, platform_user_id) == FALSE

\* whether get_or_create_user finds the user of an existing identity
FindsExistingUser(platform, platform_user_id) ==
  LET i == FirstIdentity(platform, platform_user_id)
  IN  /\ i # 0
      /\ identities[i].user_uuid # None
      /\ IsUserKey(identities[i].user_uuid)

\* get_or_create_user needs a fresh uuid only when it creates a user
CanGetOrCreate(platform, platform_user_id) ==
  FindsExistingUser(platform, platform_user_id) \/ UnusedUUIDs # {}

\* get_or_create_user: the tables after the call and the returned pair
get_or_create_user(platform, platform_user_id) ==
  LET i == FirstIdentity(platform, platform_user_id)
  IN  IF FindsExistingUser(platform, platform_user_id)
      THEN [users |-> users, identities |-> identities,
            user_uuid |-> identities[i].user_uuid,
            user_name |-> users[identities[i].user_uuid].preferred_name]
      ELSE LET u == FreshUUID
           IN  [users |-> [users EXCEPT ![u] = NewUserRow],
                identities |-> Append(identities,
                                 [user_uuid |-> u, platform |-> platform,
                                  platform_user_id |-> platform_user_id]),
                user_uuid |-> u,
                user_name |-> None]

\* update_user_preferences(user_uuid, {'preferred_name': name}) on table us
update_preferred_name(us, user_uuid, name) ==
  IF ~us[user_uuid].exists THEN us
  ELSE [us EXCEPT ![user_uuid].preferred_name = name]

needs_onboarding_missing_ok(user_uuid) ==
  IF IsUserKey(user_uuid)
  THEN users[user_uuid].preferred_name = None
  ELSE FALSE

needs_onboarding(user_uuid) ==
  IF IsUserKey(user_uuid)
  THEN users[user_uuid].preferred_name = None
  ELSE TRUE

\* the join of get_users_with_scheduled_messages, mapped back to
\* (user_uuid, platform_user_id) by get_users_for_scheduling
get_users_for_scheduling(platform) ==
  {<<identities[i].user_uuid, identities[i].platform_user_id>> :
     i \in {j \in DOMAIN identities :
              /\ identities[j].platform = platform
              /\ identities[j].user_uuid # None
              /\ IsUserKey(identities[j].user_uuid)
              /\ users[identities[j].user_uuid].is_active
              /\ users[identities[j].user_uuid].preferred_name # None}}

----------------------------------------------------------------------------
(* CompressorService *)

CompressOutcomes == {"ok", "api_error", "raise"}

\* compress_message: outcome "ok" is an answer of the model, "api_error" the
\* provider's own fallback string (it catches the failure of the API call),
\* "raise" an exception inside the try block
compress_message(content, outcome) ==
  IF content.len < min_length_to_compress THEN content
  ELSE IF outcome = "ok" THEN ModelText(content.len)
  ELSE IF outcome = "api_error" THEN ProviderApology
  ELSE IF content.len > truncate_length THEN Truncated(content) ELSE content

\* store_compressed_message: the compressed_messages table after the insert
store_compressed_message(cm, db_id, user_uuid, platform, role, original_content, compressed_content) ==
  Append(cm, [conversation_history_id |-> db_id,
              user_uuid |-> user_uuid,
              platform |-> platform,
              role |-> role,
              original_length |-> original_content.len,
              compressed_content |-> compressed_content,
              compressed_length |-> compressed_content.len,
              created_at |-> now])

\* rows of a table (a sequence) for one user and platform, in table order
RowsFor(table, user_uuid, platform) ==
  SelectSeq(table, LAMBDA r : r.user_uuid = user_uuid /\ r.platform = platform)

\* get_compressed_history: the newest `limit` compressed rows, oldest first
get_compressed_history(cm, user_uuid, platform, limit) ==
  LET rows == SliceTo(Reverse(RowsFor(cm, user_uuid, platform)), limit)
  IN  [i \in 1..Len(rows) |->
         [role |-> Reverse(rows)[i].role,
          content |-> Reverse(rows)[i].compressed_content]]

----------------------------------------------------------------------------
(* Conversation and ConversationManager.  A store st is the record of the   *)
(* conversation_history table, its id counter, the compressed_messages     *)
(* table and the in-memory conversations.                                  *)

ConvKey(user_uuid, platform) == <<platform, user_uuid>>

NoConversation == [loaded |-> FALSE, messages |-> <<>>]

Store == [history |-> history, next_history_id |-> next_history_id,
          compressed |-> compressed, conversations |-> conversations]

\* the newest n rows of (user, platform), oldest first:
\* order_by(created_at.desc()).limit(n).all() followed by reverse()
RecentRows(h, user_uuid, platform, n) ==
  Reverse(SliceTo(Reverse(RowsFor(h, user_uuid, platform)), n))

\* Conversation._load_from_database: loaded messages carry no db_id (0)
load_from_database(h, user_uuid, platform) ==
  LET rows == RecentRows(h, user_uuid, platform, load_limit)
  IN  [i \in 1..Len(rows) |->
         [role |-> rows[i].role, content |-> rows[i].content,
          message_type |-> rows[i].message_type, db_id |-> 0]]

\* ConversationManager.get_or_create
get_or_create(st, user_uuid, platform) ==
  LET key == ConvKey(user_uuid, platform)
      c == IF st.conversations[key].loaded THEN st.conversations[key]
           ELSE [loaded |-> TRUE,
                 messages |-> load_from_database(st.history, user_uuid, platform)]
      trimmed == IF Len(c.messages) > max_messages_in_memory
                 THEN SliceLast(c.messages, max_messages_in_memory)
                 ELSE c.messages
  IN  [st EXCEPT !.conversations[key] = [loaded |-> TRUE, messages |-> trimmed]]

\* Conversation.add_message: append to the in-memory list, insert the row.
\* The row's context column is not among the columns the insert sets.
add_message(st, user_uuid, platform, role, content, message_type) ==
  LET key == ConvKey(user_uuid, platform)
      id == st.next_history_id
  IN  [st EXCEPT
         !.conversations[key].messages =
            Append(@, [role |-> role, content |-> content,
                       message_type |-> message_type, db_id |-> id]),
         !.history =
            Append(@, [id |-> id, user_uuid |-> user_uuid,
                       platform |-> platform, role |-> role,
                       content |-> content, message_type |-> message_type,
                       context |-> None, created_at |-> now]),
         !.next_history_id = id + 1]

\* Conversation.compress_last_message
compress_last_message(st, user_uuid, platform, outcome) ==
  LET msgs == st.conversations[ConvKey(user_uuid, platform)].messages
      last_msg == msgs[Len(msgs)]
  IN  IF msgs = <<>> THEN st
      ELSE IF last_msg.db_id = 0 THEN st
      ELSE [st EXCEPT !.compressed =
              store_compressed_message(@, last_msg.db_id, user_uuid, platform,
                 last_msg.role, last_msg.content,
                 compress_message(last_msg.content, outcome))]

----------------------------------------------------------------------------
(* OnboardingService *)

StateKey(platform, platform_user_id) == <<platform, platform_user_id>>

\* an onboarding flow that is over once the name is given
is_user_onboarding_until_named(platform, platform_user_id) ==
  onboarding_states[StateKey(platform, platform_user_id)] = "name"

is_user_onboarding(platform, platform_user_id) ==
  onboarding_states[StateKey(platform, platform_user_id)] # None

\* the core memory row handle_onboarding_response creates (create_memory
\* with core=True: weighting is the core weight)
OnboardingMemory(user_uuid) ==
  [user_uuid |-> user_uuid, memory_type |-> "FACT", core |-> TRUE,
   weighting |-> core_memory_weight, is_active |-> TRUE, ttl |-> -1,
   created_at |-> now, last_accessed_at |-> -1, access_count |-> 0]

----------------------------------------------------------------------------
(* SchedulerService: the scheduling policy *)

NoContext == [exists |-> FALSE, last_scheduled_at |-> -1]

\* _get_or_create_context on the cache uc
get_or_create_context(uc, user_id, platform) ==
  IF uc[ConvKey(user_id, platform)].exists THEN uc
  ELSE [uc EXCEPT ![ConvKey(user_id, platform)] =
          [exists |-> TRUE, last_scheduled_at |-> -1]]

\* _check_last_message: role, created_at and type of the newest row; the
\* type is looked up in the row's context column
check_last_message(user_id, platform) ==
  LET rows == RowsFor(history, user_id, platform)
      last_message == rows[Len(rows)]
  IN  IF rows = <<>> THEN [role |-> None, time |-> -1, type |-> None]
      ELSE [role |-> last_message.role,
            time |-> last_message.created_at,
            type |-> IF last_message.context # None
                     THEN last_message.context
                     ELSE "conversation"]

current_hour == (now \div 60) % 24

\* quiet hours that end at midnight
is_quiet_hours_evening_only ==
  current_hour >= quiet_hours_start

is_quiet_hours ==
  current_hour >= quiet_hours_start \/ current_hour < quiet_hours_end

\* the decision without the cold-start branch
should_send_no_cold_start(user_id, platform) ==
  LET last == check_last_message(user_id, platform)
      time_since_last == now - last.time
  IN  IF needs_onboarding(user_id) THEN FALSE
      ELSE IF last.role = "assistant" /\ last.type = "scheduled"
           THEN ~(time_since_last < delay_after_ignored_hours * 60)
           ELSE IF is_quiet_hours THEN FALSE
                ELSE last.role # None /\ time_since_last >= DM_INTERVAL_MINUTES

\* the decision with an interval that has to be exceeded
should_send_after_interval(user_id, platform) ==
  LET last == check_last_message(user_id, platform)
      time_since_last == now - last.time
  IN  IF needs_onboarding(user_id) THEN FALSE
      ELSE IF last.role = None THEN TRUE
      ELSE IF last.role = "assistant" /\ last.type = "scheduled"
           THEN ~(time_since_last < delay_after_ignored_hours * 60)
           ELSE IF is_quiet_hours THEN FALSE
                ELSE time_since_last > DM_INTERVAL_MINUTES

\* should_send_scheduled_message, the returned boolean
should_send_scheduled_message(user_id, platform) ==
  LET last == check_last_message(user_id, platform)
      time_since_last == now - last.time
  IN  IF needs_onboarding(user_id) THEN FALSE
      ELSE IF last.role = None THEN TRUE
      ELSE IF last.role = "assistant" /\ last.type = "scheduled"
           THEN ~(time_since_last < delay_after_ignored_hours * 60)
           ELSE IF is_quiet_hours THEN FALSE
                ELSE time_since_last >= DM_INTERVAL_MINUTES

----------------------------------------------------------------------------
(* ChatService *)

\* the steps of a turn at which an exception can reach the handler's try
\* block: resolving the user, the onboarding reply, loading the conversation,
\* reading the compressed history, the two inserts, the two stores of a
\* compressed row, the generation
FailSteps == {"none", "user", "onboarding", "load", "read", "add_user",
              "compress_user", "generate", "add_assistant",
              "compress_assistant"}

\* Conversation.add_message when the insert raises: the message is already
\* in the in-memory list, without a db_id, and the transaction is rolled back
add_message_unsaved(st, user_uuid, platform, role, content, message_type) ==
  [st EXCEPT !.conversations[ConvKey(user_uuid, platform)].messages =
     Append(@, [role |-> role, content |-> content,
                message_type |-> message_type, db_id |-> 0])]

\* the texts process_message returns besides a generated response
NoText == [text |-> "none", len |-> 0]
WelcomeText == [text |-> "welcome", len |-> 230]
OnboardingText == [text |-> "onboarding", len |-> 300]
ErrorText == [text |-> "sorry", len |-> 54]
EchoText(content) == [text |-> "echo", len |-> content.len + 6]

\* generate_scheduled_message(platform_user_id, platform): the state after
\* the call and the kind of text returned ("none" for None).  `response` is
\* what the provider answers, `outcome` how the compression call goes,
\* `provider` whether an ai_provider is configured, `fail_at` the step that
\* raises; `raised` is the step whose exception the except clause caught.
generate_scheduled_message(platform_user_id, platform, response, outcome, provider, fail_at) ==
  LET key == StateKey(platform, platform_user_id)
      is_new == is_new_user(platform, platform_user_id)
      g == get_or_create_user(platform, platform_user_id)
      unchanged == [users |-> g.users, identities |-> g.identities,
                    onboarding_states |-> onboarding_states,
                    store |-> Store, kind |-> "none", raised |-> "none"]
  IN  IF fail_at = "user"
      THEN [unchanged EXCEPT !.users = users, !.identities = identities,
                             !.raised = fail_at]
      ELSE IF is_new
      THEN [unchanged EXCEPT !.onboarding_states[key] = "name",
                             !.kind = "welcome"]
      ELSE IF is_user_onboarding(platform, platform_user_id)
              \/ g.user_name = None
      THEN unchanged
      ELSE IF ~provider THEN unchanged
      ELSE IF fail_at = "load" THEN [unchanged EXCEPT !.raised = fail_at]
      ELSE LET s1 == get_or_create(Store, g.user_uuid, platform)
               s2 == add_message(s1, g.user_uuid, platform, "assistant",
                                 response, "scheduled")
               s3 == compress_last_message(s2, g.user_uuid, platform, outcome)
           IN  IF fail_at \in {"read", "generate"}
               THEN [unchanged EXCEPT !.store = s1, !.raised = fail_at]
               ELSE IF fail_at = "add_assistant"
               THEN [unchanged EXCEPT
                       !.store = add_message_unsaved(s1, g.user_uuid, platform,
                                    "assistant", response, "scheduled"),
                       !.raised = fail_at]
               ELSE IF fail_at = "compress_assistant"
               THEN [unchanged EXCEPT !.store = s2, !.raised = fail_at]
               ELSE [unchanged EXCEPT !.store = s3, !.kind = "checkin"]

\* the variables a result r of generate_scheduled_message assigns
ApplyGenerated(r) ==
  /\ users' = r.users
  /\ identities' = r.identities
  /\ onboarding_states' = r.onboarding_states
  /\ history' = r.store.history
  /\ next_history_id' = r.store.next_history_id
  /\ compressed' = r.store.compressed
  /\ conversations' = r.store.conversations

Names == {"ann"}

\* process_message whose try block ends before the write-back of the turn
process_message_unguarded(platform, platform_user_id, content, name, response, outcome, provider, fail_at) ==
  [users |-> users, identities |-> identities,
   onboarding_states |-> onboarding_states, memories |-> memories,
   store |-> Store, kind |-> "raise", text |-> NoText, raised |-> fail_at,
   generated |-> FALSE]

\* process_message of a message `content` from platform_user_id: the state
\* after the call, the kind of text returned and the text.  `name` is the
\* stripped text when it is read as a preferred name, `response` what the
\* provider answers, `outcome` how the compression call goes, `provider`
\* whether an ai_provider is configured, `fail_at` the step that raises;
\* `raised` is the step whose exception the except clause caught,
\* `generated` whether ai_provider.generate_response was called.
process_message(platform, platform_user_id, content, name, response, outcome, provider, fail_at) ==
  LET key == StateKey(platform, platform_user_id)
      is_new == is_new_user(platform, platform_user_id)
      g == get_or_create_user(platform, platform_user_id)
      current_state == IF onboarding_states[key] = None THEN "name"
                       ELSE onboarding_states[key]
      resolved == [users |-> g.users, identities |-> g.identities,
                   onboarding_states |-> onboarding_states,
                   memories |-> memories, store |-> Store,
                   kind |-> "response", text |-> response, raised |-> "none",
                   generated |-> FALSE]
      failed(r) == [r EXCEPT !.kind = "error", !.text = ErrorText,
                             !.raised = fail_at]
  IN  IF fail_at = "user"
      THEN failed([resolved EXCEPT !.users = users,
                                   !.identities = identities])
      ELSE IF is_new
      THEN \* start_onboarding, return the welcome message
           [resolved EXCEPT !.onboarding_states[key] = "name",
                            !.kind = "welcome", !.text = WelcomeText]
      ELSE IF is_user_onboarding(platform, platform_user_id)
              \/ g.user_name = None
      THEN \* handle_onboarding_response
           IF current_state = "name"
           THEN IF fail_at = "onboarding"
                THEN failed(resolved)
                ELSE [resolved EXCEPT
                        !.users = update_preferred_name(g.users, g.user_uuid,
                                                        name),
                        !.onboarding_states[key] = "memory",
                        !.kind = "onboarding", !.text = OnboardingText]
           ELSE LET done == [resolved EXCEPT
                               !.memories =
                                  Append(memories,
                                         OnboardingMemory(g.user_uuid)),
                               !.onboarding_states[key] = None,
                               !.kind = "onboarding",
                               !.text = OnboardingText]
                IN  IF fail_at = "onboarding" THEN failed(done) ELSE done
      ELSE \* the normal turn
           LET s1 == get_or_create(Store, g.user_uuid, platform)
               s2 == add_message(s1, g.user_uuid, platform, "user",
                                 content, "conversation")
               s3 == compress_last_message(s2, g.user_uuid, platform, outcome)
               s4 == add_message(s3, g.user_uuid, platform, "assistant",
                                 response, "conversation")
               s5 == compress_last_message(s4, g.user_uuid, platform, outcome)
           IN  IF fail_at = "load" THEN failed(resolved)
               ELSE IF fail_at = "read"
               THEN failed([resolved EXCEPT !.store = s1])
               ELSE IF fail_at = "add_user"
               THEN failed([resolved EXCEPT !.store =
                              add_message_unsaved(s1, g.user_uuid, platform,
                                                  "user", content,
                                                  "conversation")])
               ELSE IF fail_at = "compress_user"
               THEN failed([resolved EXCEPT !.store = s2])
               ELSE IF ~provider
               THEN [resolved EXCEPT !.store = s3, !.kind = "echo",
                                     !.text = EchoText(content)]
               ELSE IF fail_at = "generate"
               THEN failed([resolved EXCEPT !.store = s3, !.generated = TRUE])
               ELSE IF fail_at = "add_assistant"
               THEN failed([resolved EXCEPT
                              !.store =
                                 add_message_unsaved(s3, g.user_uuid, platform,
                                                     "assistant", response,
                                                     "conversation"),
                              !.generated = TRUE])
               ELSE IF fail_at = "compress_assistant"
               THEN failed([resolved EXCEPT !.store = s4, !.generated = TRUE])
               ELSE [resolved EXCEPT !.store = s5, !.generated = TRUE]

\* the variables a result r of process_message assigns
ApplyProcessed(r) ==
  /\ users' = r.users
  /\ identities' = r.identities
  /\ onboarding_states' = r.onboarding_states
  /\ memories' = r.memories
  /\ history' = r.store.history
  /\ next_history_id' = r.store.next_history_id
  /\ compressed' = r.store.compressed
  /\ conversations' = r.store.conversations

\* a call of process_message from the Discord interface, with a provider
\* configured and no step raising
ProcessMessage(platform_user_id, content, name, response, outcome) ==
  LET r == process_message(Discord, platform_user_id, content, name, response,
                           outcome, ai_provider, "none")
  IN  /\ CanGetOrCreate(Discord, platform_user_id)
      /\ Len(history) + 2 <= MaxHistory
      /\ ApplyProcessed(r)
      /\ ret' = [op |-> "process_message", from |-> platform_user_id,
                 kind |-> r.kind]
      /\ UNCHANGED <<now, ai_provider, loop, tasks, user_contexts, summaries, sweeps>>

----------------------------------------------------------------------------
(* The two proactive paths *)

\* DiscordInterface.send_scheduled_dm, for one of the users it iterates over
SendScheduledDm(platform_user_id, response, outcome) ==
  LET r == generate_scheduled_message(platform_user_id, Discord, response,
                                      outcome, ai_provider, "none")
  IN  /\ \E u \in UUIDs :
           <<u, platform_user_id>> \in get_users_for_scheduling(Discord)
      /\ CanGetOrCreate(Discord, platform_user_id)
      /\ Len(history) < MaxHistory
      /\ ApplyGenerated(r)
      /\ ret' = [op |-> "send_scheduled_dm", to |-> platform_user_id,
                 kind |-> r.kind]
      /\ UNCHANGED <<now, ai_provider, loop, tasks, user_contexts, summaries, sweeps, memories>>

\* SchedulerService.send_scheduled_message followed by the callback of
\* run_scheduling_loop, for one (user_id, platform_user_id) of the scan.
\* The first argument handed to generate_scheduled_message is user_id.
SendScheduledMessage(user_id, platform_user_id, response, outcome) ==
  LET platform == Discord
      decision == should_send_scheduled_message(user_id, platform)
      uc == get_or_create_context(user_contexts, user_id, platform)
      r == generate_scheduled_message(user_id, platform, response, outcome,
                                      ai_provider, "none")
  IN  /\ <<user_id, platform_user_id>> \in get_users_for_scheduling(platform)
      /\ IF ~decision
         THEN /\ user_contexts' = uc
              /\ ret' = [op |-> "send_scheduled_message", user_id |-> user_id,
                         to |-> platform_user_id, decision |-> FALSE,
                         kind |-> "none"]
              /\ UNCHANGED <<users, identities, onboarding_states, history,
                             next_history_id, compressed, conversations>>
         ELSE /\ CanGetOrCreate(platform, user_id)
              /\ Len(history) < MaxHistory
              /\ ApplyGenerated(r)
              /\ user_contexts' =
                   IF r.kind # "none"
                   THEN [uc EXCEPT ![ConvKey(user_id, platform)]
                                      .last_scheduled_at = now]
                   ELSE uc
              /\ ret' = [op |-> "send_scheduled_message", user_id |-> user_id,
                         to |-> platform_user_id, decision |-> TRUE,
                         kind |-> r.kind]
      /\ UNCHANGED <<now, ai_provider, loop, tasks, summaries, sweeps, memories>>

\* a call of should_send_scheduled_message(user_id, platform)
ShouldSend(user_id) ==
  /\ user_contexts' = get_or_create_context(user_contexts, user_id, Discord)
  /\ ret' = [op |-> "should_send_scheduled_message", user_id |-> user_id,
             result |-> should_send_scheduled_message(user_id, Discord)]
  /\ UNCHANGED <<now, ai_provider, loop, tasks, users, identities, onboarding_states, history,
                 next_history_id, compressed, conversations, summaries,
                 sweeps, memories>>

\* time passes until instant t
Tick(t) ==
  /\ t > now
  /\ t <= MaxSchedNow
  /\ now' = t
  /\ ret' = [op |-> "tick"]
  /\ UNCHANGED <<ai_provider, loop, tasks, users, identities, onboarding_states, history,
                 next_history_id, compressed, conversations, user_contexts,
                 summaries, sweeps, memories>>

----------------------------------------------------------------------------
(* The scheduling specification: one Discord account talks to the bot while *)
(* both proactive paths run.                                                *)

\* the instants at which something happens: Monday 19:00, 19:30, 20:00 and
\* 21:00, Tuesday 07:00, 08:00, 18:00 (23 hours after the first), 19:00,
\* 20:00 (25 hours after the first)
Instants == {1140, 1170, 1200, 1260, 1860, 1920, 2520, 2580, 2640}
StartTimes == {1140}

EmptyTables ==
  /\ users = [u \in UUIDs |-> NoUserRow]
  /\ identities = <<>>
  /\ onboarding_states = [k \in Platforms \X AnyId |-> None]
  /\ history = <<>>
  /\ next_history_id = 1
  /\ compressed = <<>>
  /\ conversations = [k \in Platforms \X UUIDs |-> NoConversation]
  /\ user_contexts = [k \in Platforms \X UUIDs |-> NoContext]
  /\ summaries = <<>>
  /\ sweeps = <<>>
  /\ memories = <<>>
  /\ ret = [op |-> "init"]

InitSched ==
  /\ now \in StartTimes
  /\ ai_provider = TRUE
  /\ loop = IdleLoop
  /\ tasks = IdleTasks
  /\ EmptyTables

NextSched ==
  \/ \E p \in PlatformUserIds, n \in Names :
       ProcessMessage(p, Orig(40), n, Orig(120), "ok")
  \/ \E p \in PlatformUserIds : SendScheduledDm(p, Orig(120), "ok")
  \/ \E u \in UUIDs, p \in PlatformUserIds :
       SendScheduledMessage(u, p, Orig(120), "ok")
  \/ \E u \in UUIDs : ShouldSend(u)
  \/ \E t \in Instants : Tick(t)

SpecSched == InitSched /\ [][NextSched]_vars

----------------------------------------------------------------------------
(* Properties of the scheduling policy *)

Onboarded(user_id) ==
  /\ user_id \in DOMAIN users
  /\ users[user_id].exists
  /\ users[user_id].preferred_name # None

HasMessages(user_id) == RowsFor(history, user_id, Discord) # <<>>

\* the most recent Message of (user, discord)
LastMessage(user_id) ==
  LET rows == RowsFor(history, user_id, Discord) IN rows[Len(rows)]

LastIsScheduled(user_id) ==
  /\ HasMessages(user_id)
  /\ LastMessage(user_id).role = "assistant"
  /\ LastMessage(user_id).message_type = "scheduled"

LastIsConversation(user_id) ==
  /\ HasMessages(user_id)
  /\ \/ LastMessage(user_id).role = "user"
     \/ /\ LastMessage(user_id).role = "assistant"
        /\ LastMessage(user_id).message_type = "conversation"

Age(user_id) == now - LastMessage(user_id).created_at

Evaluated == ret.op = "should_send_scheduled_message"

\* C1: for an onboarded user whose most recent Message is an assistant
\* message of type scheduled, should_send_scheduled_message returns false
\* when that message is less than 24 hours old and true when it is more than
\* 24 hours old.
C1_IgnoredBackoff ==
  (Evaluated /\ Onboarded(ret.user_id) /\ LastIsScheduled(ret.user_id))
    => /\ Age(ret.user_id) < 24 * 60 => ret.result = FALSE
       /\ Age(ret.user_id) > 24 * 60 => ret.result = TRUE

\* what the policy of section 4.5 answers when quiet hours are left out
EligibleOutsideQuietHours(user_id) ==
  /\ Onboarded(user_id)
  /\ \/ ~HasMessages(user_id)
     \/ LastIsScheduled(user_id) /\ Age(user_id) >= 24 * 60
     \/ LastIsConversation(user_id) /\ Age(user_id) >= 60

\* C2 as stated: in quiet hours should_send_scheduled_message returns false
\* for every onboarded user who would be eligible outside quiet hours.
C2_QuietHoursAllEligible ==
  (Evaluated /\ is_quiet_hours /\ EligibleOutsideQuietHours(ret.user_id))
    => ret.result = FALSE

\* C2 (amended): in quiet hours (hour >= 21 or hour < 8)
\* should_send_scheduled_message returns false for every onboarded user
\* whose most recent Message is from the user or is an assistant message of
\* type conversation, whatever the time elapsed since that message.
C2_QuietHours ==
  (/\ Evaluated
   /\ (current_hour >= 21 \/ current_hour < 8)
   /\ Onboarded(ret.user_id)
   /\ LastIsConversation(ret.user_id))
    => ret.result = FALSE

\* an evaluation in the morning quiet hours, 12 hours after a normal reply
C2_Witness ==
  /\ Evaluated
  /\ current_hour = 7
  /\ Onboarded(ret.user_id)
  /\ LastIsConversation(ret.user_id)
  /\ Age(ret.user_id) >= 60
  /\ ret.result = FALSE

\* C9: once a proactive message has been generated its row has type
\* scheduled, the policy reads that type, and should_send_scheduled_message
\* is false for as long as the row is the user's most recent one and less
\* than 24 hours old.
C9_AwaitingReply ==
  \A u \in UUIDs :
    (Onboarded(u) /\ LastIsScheduled(u))
      => /\ check_last_message(u, Discord).type = "scheduled"
         /\ Age(u) < 24 * 60 => ~should_send_scheduled_message(u, Discord)

\* C10: for a user whose record is missing or whose preferred name is unset
\* should_send_scheduled_message returns false.
C10_NotOnboarded ==
  (Evaluated /\ ~Onboarded(ret.user_id)) => ret.result = FALSE

\* an evaluation outside quiet hours for a user who was welcomed but has not
\* given a name
C10_Witness ==
  /\ Evaluated
  /\ ret.user_id \in DOMAIN users
  /\ users[ret.user_id].exists
  /\ users[ret.user_id].preferred_name = None
  /\ ~is_quiet_hours
  /\ ret.result = FALSE

\* C11: for an onboarded user with no Message at all on (user, platform)
\* should_send_scheduled_message returns true.
C11_ColdStart ==
  (Evaluated /\ Onboarded(ret.user_id) /\ ~HasMessages(ret.user_id))
    => ret.result = TRUE

\* an evaluation for a user who gave a name and has no Message yet
C11_Witness ==
  /\ Evaluated
  /\ Onboarded(ret.user_id)
  /\ ~HasMessages(ret.user_id)
  /\ ret.result = TRUE

\* C12: when the most recent Message is from the user or is an assistant
\* message of type conversation and the hour is outside quiet hours,
\* should_send_scheduled_message returns true if and only if that message
\* is at least 60 minutes old.
C12_Interval ==
  (/\ Evaluated
   /\ LastIsConversation(ret.user_id)
   /\ ~(current_hour >= 21 \/ current_hour < 8))
    => (ret.result = TRUE <=> Age(ret.user_id) >= 60)

\* an evaluation exactly 60 minutes after a normal reply, outside quiet hours
C12_Witness ==
  /\ Evaluated
  /\ LastIsConversation(ret.user_id)
  /\ ~(current_hour >= 21 \/ current_hour < 8)
  /\ Age(ret.user_id) = 60
  /\ ret.result = TRUE

----------------------------------------------------------------------------
(* MemoriesManager.  A memory's id is its index in the memories table; ttl,  *)
(* last_accessed_at and an omitted weighting are -1 when they are None.     *)
(* TTLs are seconds, the clock counts minutes.                              *)

MaxMemories == 3
MaxAccess == 1
MaxCount == 3

NoValue == -1

MemoryIds == DOMAIN memories

age_seconds(m) == (now - m.created_at) * 60

\* the TTL test of get_active_memories: the memory is kept
within_ttl(m) == m.ttl = NoValue \/ age_seconds(m) < m.ttl

\* create_memory: the table after the insert
create_memory(user_uuid, memory_type, weighting, core, ttl_seconds) ==
  Append(memories,
    [user_uuid |-> user_uuid,
     memory_type |-> memory_type,
     core |-> core,
     weighting |-> IF core THEN core_memory_weight
                   ELSE IF weighting = NoValue \/ weighting = 0
                        THEN default_weighting
                        ELSE weighting,
     is_active |-> TRUE,
     ttl |-> ttl_seconds,
     created_at |-> now,
     last_accessed_at |-> NoValue,
     access_count |-> 0])

\* the rows the query of get_active_memories selects, by id
ActiveQuery(user_uuid, memory_type) ==
  {i \in MemoryIds :
     /\ memories[i].user_uuid = user_uuid
     /\ memories[i].is_active
     /\ memory_type # None => memories[i].memory_type = memory_type}

\* the ids of a set, in table order
RECURSIVE InOrder(_)
InOrder(S) ==
  IF S = {} THEN <<>>
  ELSE LET i == CHOOSE x \in S : \A y \in S : x <= y
       IN  <<i>> \o InOrder(S \ {i})

\* get_active_memories that never writes the flag
get_active_memories_readonly(user_uuid, memory_type, include_expired) ==
  LET q == ActiveQuery(user_uuid, memory_type)
  IN  IF include_expired
      THEN [memories |-> memories, result |-> InOrder(q)]
      ELSE [memories |-> memories,
            result |-> InOrder({i \in q : within_ttl(memories[i])})]

\* get_active_memories: the table after the call and the ids returned
get_active_memories(user_uuid, memory_type, include_expired) ==
  LET q == ActiveQuery(user_uuid, memory_type)
  IN  IF include_expired
      THEN [memories |-> memories, result |-> InOrder(q)]
      ELSE [memories |->
              [i \in MemoryIds |->
                 IF i \in q /\ ~within_ttl(memories[i])
                 THEN [memories[i] EXCEPT !.is_active = FALSE]
                 ELSE memories[i]],
            result |-> InOrder({i \in q : within_ttl(memories[i])})]

\* get_core_memories: the ids returned
get_core_memories(user_uuid) ==
  InOrder({i \in MemoryIds :
             /\ memories[i].user_uuid = user_uuid
             /\ memories[i].core
             /\ memories[i].is_active})

\* the sort key of get_memories_for_prompt
recency(m) ==
  IF m.last_accessed_at # NoValue THEN m.last_accessed_at ELSE m.created_at

\* key(a) > key(b) for the key (weighting, recency)
KeyGreater(a, b) ==
  \/ a.weighting > b.weighting
  \/ a.weighting = b.weighting /\ recency(a) > recency(b)

\* list.sort(key=..., reverse=True) of the ids in S over table ms: descending
\* keys, equal keys in their original (table) order
RECURSIVE SortedDesc(_, _)
SortedDesc(ms, S) ==
  IF S = {} THEN <<>>
  ELSE LET i == CHOOSE x \in S :
                  \A y \in S \ {x} :
                    \/ KeyGreater(ms[x], ms[y])
                    \/ ~KeyGreater(ms[y], ms[x]) /\ x < y
       IN  <<i>> \o SortedDesc(ms, S \ {i})

\* an access pass that touches every active memory of the table
track_memory_access_all_active(ms, ids) ==
  [i \in DOMAIN ms |->
     IF ms[i].is_active
     THEN [ms[i] EXCEPT !.access_count = @ + 1, !.last_accessed_at = now]
     ELSE ms[i]]

\* _track_memory_access for every id of the sequence ids
track_memory_access(ms, ids) ==
  [i \in DOMAIN ms |->
     IF i \in Range(ids)
     THEN [ms[i] EXCEPT !.access_count = @ + 1, !.last_accessed_at = now]
     ELSE ms[i]]

\* get_memories_for_prompt without the sort: regular memories in table order
get_memories_for_prompt_unsorted(user_uuid, max_count) ==
  LET all_memories == {i \in MemoryIds :
                         /\ memories[i].user_uuid = user_uuid
                         /\ memories[i].is_active}
      expired == {i \in all_memories :
                    /\ memories[i].ttl # NoValue
                    /\ age_seconds(memories[i]) >= memories[i].ttl}
      ms == [i \in MemoryIds |->
               IF i \in expired
               THEN [memories[i] EXCEPT !.is_active = FALSE]
               ELSE memories[i]]
      core_memories == InOrder({i \in all_memories :
                                  ms[i].core /\ ms[i].is_active})
      regular_memories == InOrder({i \in all_memories :
                                     ~ms[i].core /\ ms[i].is_active})
      remaining_slots == max_count - Len(core_memories)
      included == core_memories \o SliceTo(regular_memories, remaining_slots)
  IN  [memories |-> track_memory_access(ms, included),
       result |-> included]

\* get_memories_for_prompt with the core memories counted against max_count
get_memories_for_prompt_capped(user_uuid, max_count) ==
  LET all_memories == {i \in MemoryIds :
                         /\ memories[i].user_uuid = user_uuid
                         /\ memories[i].is_active}
      expired == {i \in all_memories :
                    /\ memories[i].ttl # NoValue
                    /\ age_seconds(memories[i]) >= memories[i].ttl}
      ms == [i \in MemoryIds |->
               IF i \in expired
               THEN [memories[i] EXCEPT !.is_active = FALSE]
               ELSE memories[i]]
      core_memories == InOrder({i \in all_memories :
                                  ms[i].core /\ ms[i].is_active})
      included == SliceTo(core_memories, max_count)
  IN  [memories |-> track_memory_access(ms, included),
       result |-> included]

\* get_memories_for_prompt: the table after the call and the ids returned
get_memories_for_prompt(user_uuid, max_count) ==
  LET all_memories == {i \in MemoryIds :
                         /\ memories[i].user_uuid = user_uuid
                         /\ memories[i].is_active}
      expired == {i \in all_memories :
                    /\ memories[i].ttl # NoValue
                    /\ age_seconds(memories[i]) >= memories[i].ttl}
      ms == [i \in MemoryIds |->
               IF i \in expired
               THEN [memories[i] EXCEPT !.is_active = FALSE]
               ELSE memories[i]]
      core_memories == InOrder({i \in all_memories :
                                  ms[i].core /\ ms[i].is_active})
      regular_memories == SortedDesc(ms, {i \in all_memories :
                                            ~ms[i].core /\ ms[i].is_active})
      remaining_slots == max_count - Len(core_memories)
      included == core_memories \o SliceTo(regular_memories, remaining_slots)
  IN  [memories |-> track_memory_access(ms, included),
       result |-> included]

\* update_memory_weight: the table after the call
\* an update that does not look at the core flag
update_memory_weight_unchecked(memory_id, new_weight) ==
  IF memory_id \in MemoryIds
  THEN [memories EXCEPT ![memory_id].weighting = new_weight]
  ELSE memories

update_memory_weight(memory_id, new_weight) ==
  IF memory_id \in MemoryIds /\ ~memories[memory_id].core
  THEN [memories EXCEPT ![memory_id].weighting = new_weight]
  ELSE memories

\* a delete that flips the flag
deactivate_memory_toggle(memory_id) ==
  IF memory_id \in MemoryIds
  THEN [memories EXCEPT ![memory_id].is_active = ~@]
  ELSE memories

\* deactivate_memory: the table after the call
deactivate_memory(memory_id) ==
  IF memory_id \in MemoryIds
  THEN [memories EXCEPT ![memory_id].is_active = FALSE]
  ELSE memories

----------------------------------------------------------------------------
(* The memory store specifications: memories of two users are created,     *)
(* those of the first are read, re-weighted, deactivated (SpecMem) and      *)
(* selected for the prompt (SpecPrompt) while the clock advances past a TTL. *)

MemoryTypes == {"FACT", "PREFERENCE"}

TTLSeconds == 1800

MemUsers == {"u1", "u2"}

\* the arguments of the create_memory calls of the expiry specification
MemoryInputs ==
  {[user_uuid |-> "u1", memory_type |-> "FACT", weighting |-> NoValue,
    core |-> FALSE, ttl_seconds |-> TTLSeconds],
   [user_uuid |-> "u1", memory_type |-> "PREFERENCE", weighting |-> 5,
    core |-> TRUE, ttl_seconds |-> NoValue],
   [user_uuid |-> "u2", memory_type |-> "FACT", weighting |-> NoValue,
    core |-> TRUE, ttl_seconds |-> TTLSeconds],
   [user_uuid |-> "u3", memory_type |-> "FACT", weighting |-> NoValue,
    core |-> FALSE, ttl_seconds |-> NoValue]}

\* the arguments of the create_memory calls of the selection specification
PromptInputs ==
  {[user_uuid |-> "u1", memory_type |-> "FACT", weighting |-> NoValue,
    core |-> TRUE, ttl_seconds |-> NoValue],
   [user_uuid |-> "u1", memory_type |-> "FACT", weighting |-> NoValue,
    core |-> TRUE, ttl_seconds |-> TTLSeconds],
   [user_uuid |-> "u1", memory_type |-> "PREFERENCE", weighting |-> 0,
    core |-> FALSE, ttl_seconds |-> NoValue],
   [user_uuid |-> "u1", memory_type |-> "PREFERENCE", weighting |-> 3,
    core |-> FALSE, ttl_seconds |-> NoValue],
   [user_uuid |-> "u2", memory_type |-> "FACT", weighting |-> NoValue,
    core |-> TRUE, ttl_seconds |-> NoValue]}

NewWeights == {2}

MemInstants == {1140, 1170}

UnchangedButMemories ==
  UNCHANGED <<now, ai_provider, loop, tasks, users, identities, onboarding_states, history,
              next_history_id, compressed, conversations, user_contexts,
              summaries, sweeps>>

CreateMemory(a) ==
  /\ Len(memories) < MaxMemories
  /\ IF users[a.user_uuid].exists
     THEN /\ memories' = create_memory(a.user_uuid, a.memory_type,
                                       a.weighting, a.core, a.ttl_seconds)
          /\ ret' = [op |-> "create_memory", raised |-> FALSE,
                     id |-> Len(memories) + 1]
     ELSE /\ memories' = memories
          /\ ret' = [op |-> "create_memory", raised |-> TRUE, id |-> 0]
  /\ UnchangedButMemories

GetActiveMemories(user_uuid, memory_type, include_expired) ==
  LET r == get_active_memories(user_uuid, memory_type, include_expired)
  IN  /\ memories' = r.memories
      /\ ret' = [op |-> "get_active_memories", user_uuid |-> user_uuid,
                 memory_type |-> memory_type,
                 include_expired |-> include_expired, result |-> r.result]
      /\ UnchangedButMemories

GetCoreMemories(user_uuid) ==
  /\ ret' = [op |-> "get_core_memories", user_uuid |-> user_uuid,
             result |-> get_core_memories(user_uuid)]
  /\ UNCHANGED memories
  /\ UnchangedButMemories

GetMemoriesForPrompt(user_uuid, max_count) ==
  LET r == get_memories_for_prompt(user_uuid, max_count)
  IN  /\ \A i \in Range(r.result) : memories[i].access_count < MaxAccess
      /\ memories' = r.memories
      /\ ret' = [op |-> "get_memories_for_prompt", user_uuid |-> user_uuid,
                 max_count |-> max_count, result |-> r.result]
      /\ UnchangedButMemories

UpdateMemoryWeight(memory_id, new_weight) ==
  /\ memories' = update_memory_weight(memory_id, new_weight)
  /\ ret' = [op |-> "update_memory_weight", memory_id |-> memory_id]
  /\ UnchangedButMemories

\* deactivate_memory; `repeated` tells that the call before was the same one
DeactivateMemory(memory_id) ==
  /\ memories' = deactivate_memory(memory_id)
  /\ ret' = [op |-> "deactivate_memory", memory_id |-> memory_id,
             repeated |-> /\ ret.op = "deactivate_memory"
                          /\ ret.memory_id = memory_id]
  /\ UnchangedButMemories

InitMem ==
  /\ now = 1140
  /\ ai_provider = TRUE
  /\ loop = IdleLoop
  /\ tasks = IdleTasks
  /\ users = [u \in UUIDs |->
                IF u \in MemUsers
                THEN [exists |-> TRUE, preferred_name |-> "ann",
                      is_active |-> TRUE]
                ELSE NoUserRow]
  /\ identities = <<>>
  /\ onboarding_states = [k \in Platforms \X AnyId |-> None]
  /\ history = <<>>
  /\ next_history_id = 1
  /\ compressed = <<>>
  /\ conversations = [k \in Platforms \X UUIDs |-> NoConversation]
  /\ user_contexts = [k \in Platforms \X UUIDs |-> NoContext]
  /\ summaries = <<>>
  /\ sweeps = <<>>
  /\ memories = <<>>
  /\ ret = [op |-> "init"]

NextMem ==
  \/ \E a \in MemoryInputs : CreateMemory(a)
  \/ \E t \in MemoryTypes \cup {None}, e \in BOOLEAN :
       GetActiveMemories("u1", t, e)
  \/ GetCoreMemories("u1")
  \/ \E i \in 1..MaxMemories, w \in NewWeights : UpdateMemoryWeight(i, w)
  \/ \E i \in 1..MaxMemories : DeactivateMemory(i)
  \/ \E t \in MemInstants : Tick(t)

SpecMem == InitMem /\ [][NextMem]_vars

\* the writers of the memories table on their own
NextCore ==
  \/ \E a \in MemoryInputs : CreateMemory(a)
  \/ \E i \in 1..MaxMemories, w \in NewWeights : UpdateMemoryWeight(i, w)
  \/ \E i \in 1..MaxMemories : DeactivateMemory(i)

SpecCore == InitMem /\ [][NextCore]_vars

NextPrompt ==
  \/ \E a \in PromptInputs : CreateMemory(a)
  \/ \E c \in 0..MaxCount : GetMemoriesForPrompt("u1", c)
  \/ \E t \in MemInstants : Tick(t)

SpecPrompt == InitMem /\ [][NextPrompt]_vars

\* the arguments of the create_memory calls of the ranking specification
RankInputs ==
  {[user_uuid |-> "u1", memory_type |-> "FACT", weighting |-> NoValue,
    core |-> TRUE, ttl_seconds |-> NoValue],
   [user_uuid |-> "u1", memory_type |-> "PREFERENCE", weighting |-> 0,
    core |-> FALSE, ttl_seconds |-> NoValue],
   [user_uuid |-> "u1", memory_type |-> "PREFERENCE", weighting |-> 3,
    core |-> FALSE, ttl_seconds |-> NoValue]}

NextRank ==
  \/ \E a \in RankInputs : CreateMemory(a)
  \/ \E c \in 0..MaxCount : GetMemoriesForPrompt("u1", c)
  \/ \E t \in MemInstants : Tick(t)

SpecRank == InitMem /\ [][NextRank]_vars

----------------------------------------------------------------------------
(* Properties of the memory store *)

\* the TTL of memory i has elapsed
Elapsed(i) ==
  /\ memories[i].ttl # NoValue
  /\ (now - memories[i].created_at) * 60 >= memories[i].ttl

Selected == ret.op = "get_memories_for_prompt"

\* the user's memories that are active and not expired once the call returned
LiveCore ==
  {i \in MemoryIds : /\ memories[i].user_uuid = ret.user_uuid
                     /\ memories[i].core
                     /\ memories[i].is_active
                     /\ ~Elapsed(i)}

LiveRegular ==
  {i \in MemoryIds : /\ memories[i].user_uuid = ret.user_uuid
                     /\ ~memories[i].core
                     /\ memories[i].is_active
                     /\ ~Elapsed(i)}

\* C3: whatever max_count is, the result of get_memories_for_prompt holds
\* every active, non-expired core memory of the user.
C3_AllCoreReturned ==
  Selected => \A i \in LiveCore : i \in Range(ret.result)

\* a call with max_count = 2 returned three core memories
C3_Witness ==
  /\ Selected
  /\ ret.max_count = 2
  /\ Cardinality(LiveCore) = 3
  /\ LiveCore \subseteq Range(ret.result)

\* C4: the result of get_memories_for_prompt holds exactly
\* min(#active regular, max(0, max_count - core_count)) regular memories.
C4_RegularCount ==
  Selected =>
    Cardinality({i \in Range(ret.result) : ~memories[i].core})
      = Min(Cardinality(LiveRegular),
            Max(0, ret.max_count - Cardinality(LiveCore)))

\* memory a ranks strictly above memory b: greater weighting, or the same
\* weighting and a later recency (last access if any, else creation)
RanksAbove(a, b) ==
  LET ra == IF a.last_accessed_at # NoValue THEN a.last_accessed_at
            ELSE a.created_at
      rb == IF b.last_accessed_at # NoValue THEN b.last_accessed_at
            ELSE b.created_at
  IN  \/ a.weighting > b.weighting
      \/ a.weighting = b.weighting /\ ra > rb

\* the call about to return r for user u: the regular memories of u that are
\* active and not expired when it is made
ActiveRegularAt(u) ==
  {i \in DOMAIN memories : /\ memories[i].user_uuid = u
                           /\ ~memories[i].core
                           /\ memories[i].is_active
                           /\ ~Elapsed(i)}

\* C26: in a get_memories_for_prompt call, ranked by the values the memories
\* have when the call is made, no omitted active regular memory ranks
\* strictly above a returned one, the returned regular memories are in
\* descending rank, and they come after every core memory of the result.
C26_RankedRegular ==
  [][ret'.op = "get_memories_for_prompt" =>
       LET res == ret'.result
           reg == {k \in DOMAIN res : ~memories[res[k]].core}
       IN  /\ \A k \in reg :
                 \A j \in ActiveRegularAt(ret'.user_uuid) \ Range(res) :
                    ~RanksAbove(memories[j], memories[res[k]])
           /\ \A k, l \in reg :
                 k < l => ~RanksAbove(memories[res[l]], memories[res[k]])
           /\ \A k \in reg : \A l \in DOMAIN res \ reg : l < k]_vars

\* a call returned the heavier of two regular memories and left the lighter,
\* older in the table, out
C26_Witness ==
  /\ Selected
  /\ \E i \in Range(ret.result) :
       /\ ~memories[i].core
       /\ \E j \in LiveRegular \ Range(ret.result) :
            j < i /\ memories[j].weighting < memories[i].weighting

\* C29: a get_memories_for_prompt call adds exactly 1 to access_count and
\* sets last_accessed_at to the time of the call for every memory it returns,
\* and changes neither field of any other memory.
C29_AccessTracking ==
  [][ret'.op = "get_memories_for_prompt" =>
       \A i \in DOMAIN memories :
         IF i \in Range(ret'.result)
         THEN /\ memories'[i].access_count = memories[i].access_count + 1
              /\ memories'[i].last_accessed_at = now
         ELSE /\ memories'[i].access_count = memories[i].access_count
              /\ memories'[i].last_accessed_at
                   = memories[i].last_accessed_at]_vars

\* a call returned one memory and left another active memory of the user out
C29_Witness ==
  /\ Selected
  /\ \E i \in Range(ret.result) : memories[i].access_count = 1
  /\ \E j \in (LiveRegular \cup LiveCore) \ Range(ret.result) :
       memories[j].access_count = 0

ReadActive == ret.op = "get_active_memories" /\ ~ret.include_expired

\* the memory is one the call's user and type arguments select
Queried(i) ==
  /\ memories[i].user_uuid = ret.user_uuid
  /\ ret.memory_type # None => memories[i].memory_type = ret.memory_type

\* C8 as stated: a get_active_memories(include_expired=False) call for the
\* user leaves every memory whose TTL has elapsed out of its result and
\* inactive.
C8_FirstCallDeactivates ==
  ReadActive =>
    \A i \in MemoryIds :
      (Elapsed(i) /\ memories[i].user_uuid = ret.user_uuid)
        => (i \notin Range(ret.result) /\ ~memories[i].is_active)

\* C8: a get_active_memories(include_expired=False) call never returns a
\* memory whose TTL has elapsed, and leaves inactive every such memory that
\* its user and memory_type arguments select.
C8_ExpiredAbsent ==
  ReadActive =>
    \A i \in MemoryIds :
      Elapsed(i) =>
        /\ i \notin Range(ret.result)
        /\ Queried(i) => ~memories[i].is_active

\* a call returned while a memory it selects had an elapsed TTL
C8_Witness ==
  /\ ReadActive
  /\ \E i \in MemoryIds :
       /\ Elapsed(i)
       /\ Queried(i)
       /\ ~memories[i].is_active
       /\ i \notin Range(ret.result)

\* C18: every core memory has weighting 999 in every reachable state:
\* create_memory with core=True stores 999 whatever weighting is supplied,
\* and update_memory_weight on a core memory changes nothing.
C18_CoreWeight ==
  [][/\ \A i \in DOMAIN memories' :
          memories'[i].core => memories'[i].weighting = core_memory_weight
     /\ (/\ ret'.op = "update_memory_weight"
         /\ ret'.memory_id \in MemoryIds
         /\ memories[ret'.memory_id].core) => memories' = memories
    ]_vars

\* a core memory created with a supplied weighting of 5, after an update of
\* its weight to 2
C18_Witness ==
  /\ ret.op = "update_memory_weight"
  /\ ret.memory_id \in MemoryIds
  /\ memories[ret.memory_id].core
  /\ memories[ret.memory_id].memory_type = "PREFERENCE"
  /\ memories[ret.memory_id].weighting = core_memory_weight

\* C19: deactivate_memory is idempotent: for every memory id (existing,
\* already inactive, or missing) the state after two calls equals the state
\* after one, and no call raises.
C19_DeactivateIdempotent ==
  [][(ret'.op = "deactivate_memory" /\ ret'.repeated)
       => /\ memories' = memories
          /\ \A i \in MemoryIds :
               i = ret'.memory_id => ~memories'[i].is_active
    ]_vars

C19_Witness ==
  /\ ret.op = "deactivate_memory"
  /\ ret.repeated
  /\ ret.memory_id \in MemoryIds
  /\ ~memories[ret.memory_id].is_active

----------------------------------------------------------------------------
(* Conversation.get_hybrid_conversation_history and the history             *)
(* specification: messages of two users are appended and compressed, and    *)
(* the hybrid history of the first is read.                                 *)

MaxMessages == 3
MaxLimit == 3
MaxFull == 3

\* the compressed_messages row the lookup map holds for a history id: the
\* last of the rows returned for it (0 when there is none)
compressed_map(cm, id) ==
  LET S == {i \in DOMAIN cm : cm[i].conversation_history_id = id}
  IN  IF S = {} THEN 0 ELSE CHOOSE i \in S : \A j \in S : j <= i

raw_entry(msg) ==
  [role |-> msg.role, content |-> msg.content, message_type |-> "raw",
   timestamp |-> msg.created_at]

\* an entry of the older portion
older_entry(cm, msg) ==
  IF compressed_map(cm, msg.id) # 0
  THEN [role |-> msg.role,
        content |-> cm[compressed_map(cm, msg.id)].compressed_content,
        message_type |-> "summary", timestamp |-> msg.created_at]
  ELSE raw_entry(msg)

\* a composition that keeps no message verbatim when a compressed row exists
get_hybrid_conversation_history_all_older(st, user_uuid, platform, limit, full_message_count, include_temporal) ==
  LET recent_messages == RecentRows(st.history, user_uuid, platform, limit)
      hist == [k \in DOMAIN recent_messages |->
                 older_entry(st.compressed, recent_messages[k])]
  IN  [messages |-> hist, context_note |-> include_temporal /\ hist # <<>>]

\* get_hybrid_conversation_history: the message entries returned, and
\* whether the temporal context note follows them
get_hybrid_conversation_history(st, user_uuid, platform, limit, full_message_count, include_temporal) ==
  LET recent_messages == RecentRows(st.history, user_uuid, platform, limit)
      older_messages == SliceButLast(recent_messages, full_message_count)
      newest_messages == SliceLast(recent_messages, full_message_count)
      hist ==
        IF Len(recent_messages) <= full_message_count
        THEN [k \in DOMAIN recent_messages |-> raw_entry(recent_messages[k])]
        ELSE [k \in DOMAIN older_messages |->
                older_entry(st.compressed, older_messages[k])]
             \o [k \in DOMAIN newest_messages |-> raw_entry(newest_messages[k])]
  IN  IF recent_messages = <<>>
      THEN [messages |-> <<>>, context_note |-> FALSE]
      ELSE [messages |-> hist, context_note |-> include_temporal /\ hist # <<>>]

HistUsers == {"u1", "u2"}

\* the arguments of the add_message calls
HistInputs ==
  {[user_uuid |-> "u1", role |-> "user", content |-> Orig(120)],
   [user_uuid |-> "u1", role |-> "assistant", content |-> Orig(40)],
   [user_uuid |-> "u2", role |-> "user", content |-> Orig(120)]}

ApplyStore(st) ==
  /\ history' = st.history
  /\ next_history_id' = st.next_history_id
  /\ compressed' = st.compressed
  /\ conversations' = st.conversations

UnchangedButStore ==
  UNCHANGED <<now, ai_provider, loop, tasks, users, identities, onboarding_states, user_contexts,
              summaries, sweeps, memories>>

AddMessage(a) ==
  /\ Len(history) < MaxMessages
  /\ ApplyStore(add_message(get_or_create(Store, a.user_uuid, Discord),
                            a.user_uuid, Discord, a.role, a.content,
                            "conversation"))
  /\ ret' = [op |-> "add_message", user_uuid |-> a.user_uuid]
  /\ UnchangedButStore

CompressLastMessage(user_uuid, outcome) ==
  /\ Len(compressed) < MaxMessages
  /\ ApplyStore(compress_last_message(get_or_create(Store, user_uuid, Discord),
                                      user_uuid, Discord, outcome))
  /\ ret' = [op |-> "compress_last_message", user_uuid |-> user_uuid]
  /\ UnchangedButStore

GetHybridConversationHistory(user_uuid, limit, full_message_count, include_temporal) ==
  LET st == get_or_create(Store, user_uuid, Discord)
  IN  /\ ApplyStore(st)
      /\ ret' = [op |-> "get_hybrid_conversation_history",
                 user_uuid |-> user_uuid, limit |-> limit,
                 full_message_count |-> full_message_count,
                 result |-> get_hybrid_conversation_history(st, user_uuid,
                              Discord, limit, full_message_count,
                              include_temporal)]
      /\ UnchangedButStore

NextHist ==
  \/ \E a \in HistInputs : AddMessage(a)
  \/ \E u \in HistUsers : CompressLastMessage(u, "ok")
  \/ \E l \in 1..MaxLimit, f \in 0..MaxFull :
       GetHybridConversationHistory("u1", l, f, TRUE)

SpecHist == InitMem /\ [][NextHist]_vars

----------------------------------------------------------------------------
(* Properties of the hybrid history *)

HybridRead == ret.op = "get_hybrid_conversation_history"

\* the newest ret.limit conversation_history rows of the user, oldest first
Matched ==
  LET rows == RowsFor(history, ret.user_uuid, Discord)
  IN  SubSeq(rows, Max(1, Len(rows) - ret.limit + 1), Len(rows))

CompressedContents(id) ==
  {compressed[i].compressed_content :
     i \in {j \in DOMAIN compressed : compressed[j].conversation_history_id = id}}

Verbatim(entry, row) ==
  /\ entry.message_type = "raw"
  /\ entry.role = row.role
  /\ entry.content = row.content

CompressedOrVerbatim(entry, row) ==
  IF CompressedContents(row.id) # {}
  THEN /\ entry.message_type = "summary"
       /\ entry.role = row.role
       /\ entry.content \in CompressedContents(row.id)
  ELSE Verbatim(entry, row)

\* C5: get_hybrid_conversation_history returns one entry per matched
\* message; all verbatim when full_message_count >= their number, otherwise
\* the newest full_message_count verbatim and every older one as its
\* CompressedMessage content when one exists, else verbatim.
C5_HybridSplit ==
  HybridRead =>
    LET n == Len(Matched)
        f == ret.full_message_count
        r == ret.result.messages
    IN  /\ Len(r) = n
        /\ \A k \in 1..n :
             IF f >= n \/ k > n - f
             THEN Verbatim(r[k], Matched[k])
             ELSE CompressedOrVerbatim(r[k], Matched[k])

----------------------------------------------------------------------------
(* SummarizerService, read with the conversation_summaries table it names   *)
(* and a provider call that answers.  A ConversationSummary row holds the   *)
(* columns the service sets; the position of "no summary yet" is 0.         *)

SummaryText == [text |-> "summary", len |-> 300]

\* a position that is the least last_message_id of the summaries
get_last_summary_position_least(sm, user_uuid, platform) ==
  LET rows == RowsFor(sm, user_uuid, platform)
  IN  IF rows = <<>> THEN 0
      ELSE CHOOSE m \in {rows[i].last_message_id : i \in DOMAIN rows} :
             \A i \in DOMAIN rows : rows[i].last_message_id >= m

\* get_last_summary_position: the greatest last_message_id, 0 for None
get_last_summary_position(sm, user_uuid, platform) ==
  LET rows == RowsFor(sm, user_uuid, platform)
  IN  IF rows = <<>> THEN 0
      ELSE CHOOSE m \in {rows[i].last_message_id : i \in DOMAIN rows} :
             \A i \in DOMAIN rows : rows[i].last_message_id <= m

\* get_unsummarized_messages: the rows after the last summarized id, oldest
\* first
get_unsummarized_messages(h, sm, user_uuid, platform) ==
  LET last_summarized_id == get_last_summary_position(sm, user_uuid, platform)
  IN  SelectSeq(RowsFor(h, user_uuid, platform),
                LAMBDA r : last_summarized_id # 0 => r.id > last_summarized_id)

\* should_summarize with a strict threshold
should_summarize_strict(h, sm, user_uuid, platform) ==
  Len(get_unsummarized_messages(h, sm, user_uuid, platform))
    > min_messages_to_summarize

should_summarize(h, sm, user_uuid, platform) ==
  Len(get_unsummarized_messages(h, sm, user_uuid, platform))
    >= min_messages_to_summarize

\* the chunk process_user_summaries hands to summarize_conversation_chunk
next_chunk(h, sm, user_uuid, platform) ==
  SliceTo(get_unsummarized_messages(h, sm, user_uuid, platform),
          max_messages_per_summary)

\* the row summarize_conversation_chunk inserts for a chunk given by its
\* first id, last id and length
summary_record(user_uuid, platform, first_id, last_id, count, summary) ==
  [user_uuid |-> user_uuid, platform |-> platform,
   first_message_id |-> first_id, last_message_id |-> last_id,
   message_count |-> count, summary |-> summary, created_at |-> now]

\* summarize_conversation_chunk: the table after the call and whether a
\* summary was returned.  Outcome "ok" is an answer of the model,
\* "api_error" the provider's fallback string, "raise" an exception inside
\* the try block.
summarize_conversation_chunk(sm, user_uuid, platform, messages, outcome) ==
  IF messages = <<>> \/ outcome = "raise"
  THEN [summaries |-> sm, returned |-> FALSE]
  ELSE [summaries |->
          Append(sm, summary_record(user_uuid, platform, messages[1].id,
                       messages[Len(messages)].id, Len(messages),
                       IF outcome = "ok" THEN SummaryText
                       ELSE ProviderApology)),
        returned |-> TRUE]

\* the loop of process_user_summaries from the table sm with `created`
\* summaries so far; the chunk number fail_at raises (0: none does)
RECURSIVE summaries_loop(_, _, _, _, _, _)
summaries_loop(h, sm, user_uuid, platform, created, fail_at) ==
  IF ~should_summarize(h, sm, user_uuid, platform)
  THEN [summaries |-> sm, summaries_created |-> created, failed |-> FALSE]
  ELSE LET r == summarize_conversation_chunk(sm, user_uuid, platform,
                  next_chunk(h, sm, user_uuid, platform),
                  IF created + 1 = fail_at THEN "raise" ELSE "ok")
       IN  IF r.returned
           THEN summaries_loop(h, r.summaries, user_uuid, platform,
                               created + 1, fail_at)
           ELSE [summaries |-> r.summaries, summaries_created |-> created,
                 failed |-> TRUE]

\* process_user_summaries run without interruption
process_user_summaries(h, sm, user_uuid, platform, fail_at) ==
  summaries_loop(h, sm, user_uuid, platform, 0, fail_at)

----------------------------------------------------------------------------
(* The summary specification: a conversation with a backlog of messages    *)
(* and no summary; messages are appended and one sweep runs at a time.     *)

MaxAppends == 2
MaxFailAt == 2

InitialBacklogs == {0, 19, 20, 45, 50, 51, 70, 120}

BacklogCreatedAt == 1080

SumUsers == {"u1", "u2"}

\* a conversation_history table of n rows of the first user
BacklogRows(n) ==
  [i \in 1..n |->
     [id |-> i, user_uuid |-> "u1", platform |-> Discord,
      role |-> IF i % 2 = 1 THEN "user" ELSE "assistant",
      content |-> Orig(40), message_type |-> "conversation",
      context |-> None, created_at |-> BacklogCreatedAt]]

\* the rows appended since the initial backlog
Appended == {i \in DOMAIN history : history[i].created_at > BacklogCreatedAt}

AppendMessage(user_uuid) ==
  /\ Cardinality(Appended) < MaxAppends
  /\ ApplyStore(add_message(get_or_create(Store, user_uuid, Discord),
                            user_uuid, Discord, "user", Orig(40),
                            "conversation"))
  /\ ret' = [op |-> "add_message", user_uuid |-> user_uuid]
  /\ UnchangedButStore

ProcessUserSummaries(user_uuid, fail_at) ==
  LET r == process_user_summaries(history, summaries, user_uuid, Discord,
                                  fail_at)
  IN  /\ summaries' = r.summaries
      /\ ret' = [op |-> "process_user_summaries", user_uuid |-> user_uuid,
                 summaries_created |-> r.summaries_created,
                 failed |-> r.failed]
      /\ UNCHANGED <<now, ai_provider, loop, tasks, users, identities, onboarding_states, history,
                     next_history_id, compressed, conversations,
                     user_contexts, sweeps, memories>>

InitSum ==
  /\ now = 1140
  /\ ai_provider = TRUE
  /\ loop = IdleLoop
  /\ tasks = IdleTasks
  /\ users = [u \in UUIDs |->
                IF u \in SumUsers
                THEN [exists |-> TRUE, preferred_name |-> "ann",
                      is_active |-> TRUE]
                ELSE NoUserRow]
  /\ identities = <<>>
  /\ onboarding_states = [k \in Platforms \X AnyId |-> None]
  /\ \E n \in InitialBacklogs :
       /\ history = BacklogRows(n)
       /\ next_history_id = n + 1
  /\ compressed = <<>>
  /\ conversations = [k \in Platforms \X UUIDs |-> NoConversation]
  /\ user_contexts = [k \in Platforms \X UUIDs |-> NoContext]
  /\ summaries = <<>>
  /\ sweeps = <<>>
  /\ memories = <<>>
  /\ ret = [op |-> "init"]

NextSum ==
  \/ \E u \in SumUsers : AppendMessage(u)
  \/ \E u \in SumUsers, f \in 0..MaxFailAt : ProcessUserSummaries(u, f)

SpecSum == InitSum /\ [][NextSum]_vars

----------------------------------------------------------------------------
(* Properties of the summary tier *)

\* the ids of the user's messages after every last_message_id of the
\* user's summaries in table sm
Unsummarized(sm, user_uuid) ==
  {history[i].id : i \in
     {j \in DOMAIN history :
        /\ history[j].user_uuid = user_uuid
        /\ \A k \in DOMAIN sm :
             sm[k].user_uuid = user_uuid
               => history[j].id > sm[k].last_message_id}}

\* row covers the oldest unsummarized messages left by the table before it:
\* all of them, or the first max_messages_per_summary
CoversOldest(row, before, user_uuid) ==
  LET un == Unsummarized(before, user_uuid)
  IN  /\ Cardinality(un) >= min_messages_to_summarize
      /\ row.user_uuid = user_uuid
      /\ row.message_count
           = Min(Cardinality(un), max_messages_per_summary)
      /\ row.first_message_id \in un
      /\ \A id \in un : id >= row.first_message_id
      /\ row.last_message_id \in un
      /\ Cardinality({id \in un : id <= row.last_message_id})
           = row.message_count

----------------------------------------------------------------------------
(* The sweep specification: process_user_summaries as the event loop runs   *)
(* it.  A call runs without interruption up to the provider call of         *)
(* summarize_conversation_chunk, where it is suspended with its chunk, and  *)
(* from the provider's answer to the next provider call or its return.      *)
(* Other calls, appends and compressions on the same (user, platform) run   *)
(* in between.                                                              *)

MaxSweeps == 2
MaxCompressions == 1

SweepBacklogs == {20, 70}

IdleSweep ==
  [pc |-> "idle", user_uuid |-> None, first_id |-> 0, last_id |-> 0,
   count |-> 0, summaries_created |-> 0]

\* the call suspended in generate_response with the chunk it read
Suspended(user_uuid, chunk, created) ==
  [pc |-> "generate_response", user_uuid |-> user_uuid,
   first_id |-> chunk[1].id, last_id |-> chunk[Len(chunk)].id,
   count |-> Len(chunk), summaries_created |-> created]

UnchangedButSweeps ==
  UNCHANGED <<now, ai_provider, loop, tasks, users, identities, onboarding_states, history,
              next_history_id, compressed, conversations, user_contexts,
              memories>>

\* the head of the while loop: suspend with the next chunk, or return
SweepLoop(s, user_uuid, sm, created) ==
  IF should_summarize(history, sm, user_uuid, Discord)
  THEN /\ sweeps' = [sweeps EXCEPT ![s] =
                       Suspended(user_uuid,
                                 next_chunk(history, sm, user_uuid, Discord),
                                 created)]
       /\ ret' = [op |-> "generate_response", sweep |-> s]
  ELSE /\ sweeps' = [sweeps EXCEPT ![s] = IdleSweep]
       /\ ret' = [op |-> "process_user_summaries", user_uuid |-> user_uuid,
                  summaries_created |-> created, failed |-> FALSE]

\* process_user_summaries is called
SweepCall(s, user_uuid) ==
  /\ sweeps[s].pc = "idle"
  /\ SweepLoop(s, user_uuid, summaries, 0)
  /\ UNCHANGED summaries
  /\ UnchangedButSweeps

\* the provider answers: the summary of the chunk read before the
\* suspension is stored and the loop goes on, or the failure ends the call
SweepResume(s, outcome) ==
  /\ sweeps[s].pc = "generate_response"
  /\ IF outcome = "raise"
     THEN /\ summaries' = summaries
          /\ sweeps' = [sweeps EXCEPT ![s] = IdleSweep]
          /\ ret' = [op |-> "process_user_summaries",
                     user_uuid |-> sweeps[s].user_uuid,
                     summaries_created |-> sweeps[s].summaries_created,
                     failed |-> TRUE]
     ELSE /\ summaries' =
               Append(summaries,
                      summary_record(sweeps[s].user_uuid, Discord,
                                     sweeps[s].first_id, sweeps[s].last_id,
                                     sweeps[s].count,
                                     IF outcome = "ok" THEN SummaryText
                                     ELSE ProviderApology))
          /\ SweepLoop(s, sweeps[s].user_uuid, summaries',
                       sweeps[s].summaries_created + 1)
  /\ UnchangedButSweeps

\* the newest message of the conversation is compressed
SweepCompress(user_uuid) ==
  /\ Len(compressed) < MaxCompressions
  /\ CompressLastMessage(user_uuid, "ok")

InitSweep ==
  /\ now = 1140
  /\ ai_provider = TRUE
  /\ loop = IdleLoop
  /\ tasks = IdleTasks
  /\ users = [u \in UUIDs |->
                IF u \in SumUsers
                THEN [exists |-> TRUE, preferred_name |-> "ann",
                      is_active |-> TRUE]
                ELSE NoUserRow]
  /\ identities = <<>>
  /\ onboarding_states = [k \in Platforms \X AnyId |-> None]
  /\ \E n \in SweepBacklogs :
       /\ history = BacklogRows(n)
       /\ next_history_id = n + 1
  /\ compressed = <<>>
  /\ conversations = [k \in Platforms \X UUIDs |-> NoConversation]
  /\ user_contexts = [k \in Platforms \X UUIDs |-> NoContext]
  /\ summaries = <<>>
  /\ sweeps = [s \in 1..MaxSweeps |-> IdleSweep]
  /\ memories = <<>>
  /\ ret = [op |-> "init"]

NextSweep ==
  \/ \E s \in 1..MaxSweeps : SweepCall(s, "u1")
  \/ \E s \in 1..MaxSweeps, o \in {"ok", "raise"} : SweepResume(s, o)
  \/ AppendMessage("u1")
  \/ SweepCompress("u1")

SpecSweep == InitSweep /\ [][NextSweep]_vars

\* C7: the [first_message_id, last_message_id] ranges of the summaries of
\* one (user, platform) are pairwise disjoint and each summary begins after
\* the last_message_id of every earlier one.
C7_DisjointRanges ==
  \A i, j \in DOMAIN summaries :
    (/\ i < j
     /\ summaries[i].user_uuid = summaries[j].user_uuid
     /\ summaries[i].platform = summaries[j].platform)
      => summaries[j].first_message_id > summaries[i].last_message_id

----------------------------------------------------------------------------
(* The chat specification: inbound messages of one Discord account, the    *)
(* scheduled generations of both proactive paths and direct calls of       *)
(* get_or_create_user, with or without a configured provider, any step of  *)
(* a call raising.                                                         *)

MaxChatHistory == 2
MaxUnsaved == 1

\* message contents below the compression threshold, between the threshold
\* and the truncation length, and above the truncation length
ChatContents == {Orig(40), Orig(120), Orig(250)}

\* the ids generate_scheduled_message is called with: the platform user id
\* (send_scheduled_dm) and the user uuid (the scheduling loop)
ScheduledIds == PlatformUserIds \cup {"u1"}

\* what a call of process_message is given and the step of it that raises:
\* every content with a compression that answers, the contents the
\* compressor sends to the model with a compression that fails either way,
\* and every raising step for one content
ChatCalls ==
  {[content |-> c, outcome |-> "ok", fail_at |-> "none"] : c \in ChatContents}
  \cup {[content |-> c, outcome |-> o, fail_at |-> "none"] :
          c \in {Orig(120), Orig(250)}, o \in {"api_error", "raise"}}
  \cup {[content |-> Orig(120), outcome |-> "ok", fail_at |-> f] :
          f \in FailSteps}

\* the steps of generate_scheduled_message that raise here: the user
\* resolution, the generation and the insert
ScheduledFailSteps == {"none", "user", "generate", "add_assistant"}

\* the messages of the in-memory conversations
CachedMessages ==
  Len(conversations[ConvKey("u1", Discord)].messages)
  + Len(conversations[ConvKey("u2", Discord)].messages)
  + Len(conversations[ConvKey("u3", Discord)].messages)

UnchangedByChat == UNCHANGED <<now, ai_provider, loop, tasks, user_contexts, summaries, sweeps>>

\* the number of rows of a table for a user on Discord
RowCount(table, user_uuid) == Len(RowsFor(table, user_uuid, Discord))

\* process_message; the returned record keeps what the call was given, what
\* it returned and how many rows its user had before
ProcessIncoming(platform_user_id, content, name, response, outcome, fail_at) ==
  LET r == process_message(Discord, platform_user_id, content, name, response,
                           outcome, ai_provider, fail_at)
      user_uuid == get_or_create_user(Discord, platform_user_id).user_uuid
  IN  /\ CanGetOrCreate(Discord, platform_user_id)
      /\ Len(history) + 2 <= MaxChatHistory
      /\ CachedMessages + 2 <= MaxChatHistory + MaxUnsaved
      /\ ApplyProcessed(r)
      /\ ret' = [op |-> "process_message", from |-> platform_user_id,
                 user_uuid |-> user_uuid, content |-> content,
                 response |-> response, outcome |-> outcome,
                 kind |-> r.kind, text |-> r.text, raised |-> r.raised,
                 generated |-> r.generated,
                 was_new |-> is_new_user(Discord, platform_user_id),
                 was_onboarding |->
                    \/ onboarding_states[StateKey(Discord, platform_user_id)]
                         # None
                    \/ users[user_uuid].preferred_name = None,
                 prior |-> RowCount(history, user_uuid),
                 prior_compressed |-> RowCount(compressed, user_uuid)]
      /\ UnchangedByChat

\* generate_scheduled_message called by either proactive path
GenerateScheduledMessage(platform_user_id, response, outcome, fail_at) ==
  LET r == generate_scheduled_message(platform_user_id, Discord, response,
                                      outcome, ai_provider, fail_at)
  IN  /\ CanGetOrCreate(Discord, platform_user_id)
      /\ Len(history) < MaxChatHistory
      /\ CachedMessages < MaxChatHistory + MaxUnsaved
      /\ ApplyGenerated(r)
      /\ ret' = [op |-> "generate_scheduled_message",
                 from |-> platform_user_id, kind |-> r.kind,
                 raised |-> r.raised]
      /\ UNCHANGED memories
      /\ UnchangedByChat

\* a call of UserManager.get_or_create_user
GetOrCreateUser(platform_user_id) ==
  LET g == get_or_create_user(Discord, platform_user_id)
  IN  /\ CanGetOrCreate(Discord, platform_user_id)
      /\ users' = g.users
      /\ identities' = g.identities
      /\ ret' = [op |-> "get_or_create_user", from |-> platform_user_id,
                 user_uuid |-> g.user_uuid]
      /\ UNCHANGED <<onboarding_states, history, next_history_id, compressed,
                     conversations, memories>>
      /\ UnchangedByChat

InitChat ==
  /\ now = 1140
  /\ ai_provider \in BOOLEAN
  /\ loop = IdleLoop
  /\ tasks = IdleTasks
  /\ EmptyTables

NextChat ==
  \/ \E p \in PlatformUserIds, n \in Names, c \in ChatCalls :
       ProcessIncoming(p, c.content, n, Orig(130), c.outcome, c.fail_at)
  \/ \E p \in ScheduledIds, f \in ScheduledFailSteps :
       GenerateScheduledMessage(p, Orig(120), "ok", f)
  \/ \E p \in PlatformUserIds : GetOrCreateUser(p)

SpecChat == InitChat /\ [][NextChat]_vars

----------------------------------------------------------------------------
(* Properties of the chat pipeline *)

Processed == ret.op = "process_message"

Generated == ret.op = "generate_scheduled_message"

\* C13: process_message never propagates an exception: when a step of user
\* resolution, onboarding, history write, compression or generation raises,
\* the call returns the fixed apologetic string; generate_scheduled_message
\* never propagates either and returns None.
C13_NeverPropagates ==
  /\ Processed => ret.kind # "raise"
  /\ (Processed /\ ret.raised # "none")
       => (ret.kind = "error" /\ ret.text = ErrorText)
  /\ Generated => ret.kind # "raise"
  /\ (Generated /\ ret.raised # "none") => ret.kind = "none"

C13_Witness ==
  /\ Processed
  /\ ret.raised = "add_assistant"
  /\ ret.text = ErrorText
  /\ RowCount(history, ret.user_uuid) = 1

\* C14: the first message from an unseen (platform, platform_user_id) is
\* answered with the onboarding welcome; it and every inbound message that
\* arrives while onboarding is incomplete persist no Message and no
\* CompressedMessage and invoke no generation call: the content goes to the
\* onboarding flow.
C14_OnboardingGate ==
  [][(ret'.op = "process_message" /\ (ret'.was_new \/ ret'.was_onboarding))
       => /\ history' = history
          /\ compressed' = compressed
          /\ ~ret'.generated
          /\ ret'.raised = "none"
               => ret'.kind = IF ret'.was_new THEN "welcome" ELSE "onboarding"
    ]_vars

C14_Witness ==
  /\ Processed
  /\ ret.was_onboarding
  /\ ret.kind = "onboarding"
  /\ onboarding_states[StateKey(Discord, ret.from)] = None
  /\ users[ret.user_uuid].preferred_name = "ann"
  /\ history = <<>>

\* the defaults of get_hybrid_conversation_history
default_limit == 20
default_full_message_count == 5

\* the rows of the user of the last process_message call
TurnRows == RowsFor(history, ret.user_uuid, Discord)

\* what get_hybrid_conversation_history() returns for that user
TurnHybrid ==
  get_hybrid_conversation_history(Store, ret.user_uuid, Discord,
                                  default_limit, default_full_message_count,
                                  TRUE).messages

\* the two rows of a turn, the returned text and the hybrid history after it
TurnWritten ==
  /\ Len(TurnRows) = 2
  /\ TurnRows[1].role = "user"
  /\ TurnRows[1].content = ret.content
  /\ TurnRows[1].message_type = "conversation"
  /\ TurnRows[2].role = "assistant"
  /\ TurnRows[2].content = ret.response
  /\ TurnRows[2].message_type = "conversation"
  /\ TurnRows[1].id < TurnRows[2].id
  /\ ret.text = ret.response
  /\ Len(TurnHybrid) = 2
  /\ \A k \in 1..2 :
       /\ TurnHybrid[k].role = TurnRows[k].role
       /\ TurnHybrid[k].content = TurnRows[k].content
       /\ TurnHybrid[k].message_type = "raw"

\* an inbound message of an onboarded user who has no message yet
FirstTurn ==
  /\ Processed
  /\ ~ret.was_new
  /\ ~ret.was_onboarding
  /\ ret.prior = 0

RecordsOf(id) ==
  {j \in DOMAIN compressed : compressed[j].conversation_history_id = id}

\* C16: for a message shorter than the minimum length (100 characters) no
\* CompressedMessage record is created on append and compressed-history
\* reads yield its raw content verbatim; for a message of at least 100
\* characters exactly one compression is attempted.
C16_ShortNotCompressed ==
  \A i \in DOMAIN history :
    LET m == history[i]
    IN  /\ m.content.len < min_length_to_compress
             => /\ RecordsOf(m.id) = {}
                /\ \A j \in RecordsOf(m.id) :
                     compressed[j].compressed_content = m.content
        /\ m.content.len >= min_length_to_compress
             => Cardinality(RecordsOf(m.id)) <= 1

\* the row of the inbound message of the last process_message call
InboundRow == TurnRows[ret.prior + 1]

\* a turn whose inbound message was appended while the compression call
\* failed, in the provider or in compress_message itself
CompressionFailed ==
  /\ Processed
  /\ ret.kind \in {"response", "echo"}
  /\ ret.outcome \in {"api_error", "raise"}
  /\ ret.content.len >= min_length_to_compress

\* C17: when the compression call fails for a message of at least 100
\* characters, the compressed content that is stored is the first 200
\* characters of the original followed by an ellipsis (the whole original
\* when it has at most 200 characters), and the append of the raw message
\* still succeeds.
C17_TruncateOnFailure ==
  CompressionFailed
    => /\ Len(TurnRows) > ret.prior
       /\ InboundRow.content = ret.content
       /\ RecordsOf(InboundRow.id) # {}
       /\ \A j \in RecordsOf(InboundRow.id) :
            compressed[j].compressed_content =
              IF ret.content.len > truncate_length
              THEN Truncated(ret.content)
              ELSE ret.content

\* C20: in every reachable state there is at most one PlatformIdentity row
\* per (platform, platform_user_id), after any sequence and interleaving of
\* inbound messages, scheduled generations and get_or_create_user calls.
C20_UniqueIdentity ==
  \A i, j \in DOMAIN identities :
    (/\ identities[i].platform = identities[j].platform
     /\ identities[i].platform_user_id = identities[j].platform_user_id)
      => i = j

\* get_or_create_user called again for an account that has had a turn, when
\* the scheduling loop has made an identity of a user uuid as well
C20_Witness ==
  /\ ret.op = "get_or_create_user"
  /\ Len(identities) = 2
  /\ history # <<>>
  /\ identities[FirstIdentity(Discord, ret.from)].user_uuid = ret.user_uuid

----------------------------------------------------------------------------
(* SchedulerService.run_scheduling_loop and stop.  The loop is one asyncio  *)
(* task: it can be overtaken by another task only where it is suspended on  *)
(* a real await, which is the delivery callback and asyncio.sleep.          *)

MaxTicks == 2

\* the platforms argument of run_scheduling_loop
LoopPlatforms == <<Discord, "telegram">>

\* the (user_id, platform_user_id) pairs in the order the rows are read
user_mappings(platform) ==
  LET idx == SelectSeq([i \in 1..Len(identities) |-> i],
                       LAMBDA i : <<identities[i].user_uuid,
                                    identities[i].platform_user_id>>
                                    \in get_users_for_scheduling(platform))
  IN  [k \in 1..Len(idx) |-> <<identities[idx[k]].user_uuid,
                               identities[idx[k]].platform_user_id>>]

\* `while self._running`
loop_condition(l) == l.running

\* an exception inside the try leaves the loop task dead
after_exception_propagates(l) ==
  [l EXCEPT !.pc = "raised", !.pending = <<>>, !.current = <<>>]

\* `except Exception`: the error is logged, the rest of the tick is
\* abandoned and the loop goes to its sleep
after_exception(l) ==
  [l EXCEPT !.pc = "sleep", !.pending = <<>>, !.current = <<>>,
            !.caught = l.caught + 1]

\* stop()
stop(l) == [l EXCEPT !.running = FALSE]

UnchangedByLoop ==
  UNCHANGED <<ai_provider, tasks, summaries, sweeps, memories>>

UnchangedTables ==
  UNCHANGED <<users, identities, onboarding_states, history, next_history_id,
              compressed, conversations, user_contexts>>

\* run_scheduling_loop is called: _running = True
RunSchedulingLoop ==
  /\ loop.pc = "init"
  /\ loop' = [loop EXCEPT !.pc = "head", !.running = TRUE]
  /\ ret' = [op |-> "run_scheduling_loop"]
  /\ UNCHANGED now
  /\ UnchangedTables
  /\ UnchangedByLoop

\* the while test: a new tick begins with the first platform, or the loop
\* returns
LoopHead ==
  /\ loop.pc = "head"
  /\ IF loop_condition(loop)
     THEN /\ loop.ticks < MaxTicks
          /\ loop' = [loop EXCEPT !.pc = "scan", !.platform = 1,
                                  !.delivered = {}]
     ELSE loop' = [loop EXCEPT !.pc = "exited"]
  /\ ret' = [op |-> "loop_head", running |-> loop.running]
  /\ UNCHANGED now
  /\ UnchangedTables
  /\ UnchangedByLoop

\* `for platform in platforms`: the scan of the next platform begins with
\* get_users_for_scheduling(platform)
LoopScan ==
  /\ loop.pc = "scan"
  /\ loop' = [loop EXCEPT !.pc = "users",
                          !.pending = user_mappings(LoopPlatforms[loop.platform])]
  /\ ret' = [op |-> "scan_platform", platform |-> LoopPlatforms[loop.platform],
             running |-> loop.running]
  /\ UNCHANGED now
  /\ UnchangedTables
  /\ UnchangedByLoop

\* the inner for: send_scheduled_message for the next pair.  `fault` is the
\* place an exception is raised, if any: "evaluate" is a failure of
\* should_send_scheduled_message, "generate" one inside
\* generate_scheduled_message
LoopUser(response, outcome, fault) ==
  LET platform == LoopPlatforms[loop.platform]
      user_id == Head(loop.pending)[1]
      platform_user_id == Head(loop.pending)[2]
      decision == should_send_scheduled_message(user_id, platform)
      uc == get_or_create_context(user_contexts, user_id, platform)
      r == generate_scheduled_message(user_id, platform, response, outcome,
                                      ai_provider,
                                      IF fault = "generate" THEN "generate"
                                      ELSE "none")
  IN  /\ loop.pc = "users"
      /\ loop.pending # <<>>
      /\ IF fault = "evaluate"
         THEN /\ loop' = after_exception(loop)
              /\ ret' = [op |-> "loop_exception", to |-> platform_user_id,
                         at |-> "evaluate"]
              /\ UnchangedTables
         ELSE IF ~decision
         THEN /\ user_contexts' = uc
              /\ loop' = [loop EXCEPT !.pending = Tail(loop.pending)]
              /\ ret' = [op |-> "loop_user", to |-> platform_user_id,
                         kind |-> "none"]
              /\ UNCHANGED <<users, identities, onboarding_states, history,
                             next_history_id, compressed, conversations>>
         ELSE /\ CanGetOrCreate(platform, user_id)
              /\ Len(history) < MaxHistory
              /\ ApplyGenerated(r)
              /\ user_contexts' =
                   IF r.kind # "none"
                   THEN [uc EXCEPT ![ConvKey(user_id, platform)]
                                      .last_scheduled_at = now]
                   ELSE uc
              /\ loop' = IF r.kind # "none"
                         THEN [loop EXCEPT !.pc = "deliver",
                                           !.current = Head(loop.pending),
                                           !.pending = Tail(loop.pending)]
                         ELSE [loop EXCEPT !.pending = Tail(loop.pending)]
              /\ ret' = [op |-> "loop_user", to |-> platform_user_id,
                         kind |-> r.kind]
      /\ UNCHANGED now
      /\ UnchangedByLoop

\* the platform's pairs are exhausted: the next platform, or the end of the
\* tick
LoopNext ==
  /\ loop.pc = "users"
  /\ loop.pending = <<>>
  /\ loop' = IF loop.platform < Len(LoopPlatforms)
             THEN [loop EXCEPT !.pc = "scan", !.platform = loop.platform + 1]
             ELSE [loop EXCEPT !.pc = "sleep"]
  /\ ret' = [op |-> "loop_next"]
  /\ UNCHANGED now
  /\ UnchangedTables
  /\ UnchangedByLoop

\* `await message_callback(...)` returns or raises
LoopDeliver(fault) ==
  /\ loop.pc = "deliver"
  /\ IF fault
     THEN /\ loop' = after_exception(loop)
          /\ ret' = [op |-> "loop_exception", to |-> loop.current[2],
                     at |-> "deliver"]
     ELSE /\ loop' = [loop EXCEPT !.pc = "users", !.current = <<>>,
                                  !.delivered = @ \cup {loop.current[2]}]
          /\ ret' = [op |-> "delivered", to |-> loop.current[2]]
  /\ UNCHANGED now
  /\ UnchangedTables
  /\ UnchangedByLoop

\* asyncio.sleep(check_interval) is over, one minute later
LoopWake ==
  /\ loop.pc = "sleep"
  /\ loop' = [loop EXCEPT !.pc = "head", !.ticks = loop.ticks + 1]
  /\ now' = now + 1
  /\ ret' = [op |-> "loop_wake"]
  /\ UnchangedTables
  /\ UnchangedByLoop

\* another task calls stop() while the loop is suspended
Stop ==
  /\ loop.pc \in {"deliver", "sleep"}
  /\ loop.running
  /\ loop' = stop(loop)
  /\ ret' = [op |-> "stop", at |-> loop.pc]
  /\ UNCHANGED now
  /\ UnchangedTables
  /\ UnchangedByLoop

LoopFaults == {"none", "evaluate", "generate"}

InitLoop ==
  /\ now \in StartTimes
  /\ ai_provider = TRUE
  /\ loop = IdleLoop
  /\ tasks = IdleTasks
  /\ EmptyTables

NextLoop ==
  \/ \E p \in PlatformUserIds, n \in Names :
       ProcessMessage(p, Orig(40), n, Orig(120), "ok")
  \/ RunSchedulingLoop
  \/ LoopHead
  \/ LoopScan
  \/ \E f \in LoopFaults : LoopUser(Orig(120), "ok", f)
  \/ LoopNext
  \/ \E f \in BOOLEAN : LoopDeliver(f)
  \/ LoopWake
  \/ Stop

SpecLoop == InitLoop /\ [][NextLoop]_vars

(* Properties of the scheduling loop *)

\* C21: once stop() has been called on a running loop, the loop begins the
\* scan of no further platform, the remaining platforms of the current tick
\* included.
C21_NoScanAfterStop ==
  ret.op = "scan_platform" => ret.running

\* C22: an exception raised while a proactive message for one user is
\* evaluated, generated or delivered never ends the loop: it is caught, the
\* loop goes to its sleep and on to the next tick, and that user has been
\* delivered no message in the tick.
C22_ExceptionCaught ==
  /\ loop.pc # "raised"
  /\ ret.op = "loop_exception" =>
       /\ loop.pc = "sleep"
       /\ ret.to \notin loop.delivered

\* a tick that began after an earlier tick was cut short by an exception
C22_Witness ==
  /\ loop.caught > 0
  /\ loop.pc = "users"
  /\ loop.ticks > 0

----------------------------------------------------------------------------
(* database.get_db: the transactional scope every store access runs in.  A  *)
(* block is what the caller does with the session: rows it adds, whether it *)
(* commits by itself (as add_message does) and whether it then raises.      *)

MaxDbRows == 2

NoException == "None"
BlockError == "BlockError"
CommitError == "CommitError"

\* a scope whose finally clause commits whatever the block left pending
get_db_commit_always(table, block, commit_outcome) ==
  [table |-> table \o block.rows,
   calls |-> IF block.raises THEN <<"rollback", "close">>
             ELSE <<"commit", "close">>,
   raised |-> IF block.raises THEN BlockError ELSE NoException,
   closed |-> TRUE]

\* get_db(): yield the session; commit; on an exception (of the block or of
\* the commit) roll back and re-raise; close in every case
get_db(table, block, commit_outcome) ==
  LET inside == IF block.commits THEN table \o block.rows ELSE table
      pending == IF block.commits THEN <<>> ELSE block.rows
  IN  IF block.raises
      THEN [table |-> inside, calls |-> <<"rollback", "close">>,
            raised |-> BlockError, closed |-> TRUE]
      ELSE IF commit_outcome = "raise"
      THEN [table |-> inside, calls |-> <<"commit", "rollback", "close">>,
            raised |-> CommitError, closed |-> TRUE]
      ELSE [table |-> inside \o pending, calls |-> <<"commit", "close">>,
            raised |-> NoException, closed |-> TRUE]

DbRoles == {"user", "assistant"}
DbContents == {Orig(40), Orig(120)}

\* the rows a block inserts into conversation_history, numbered from the
\* table's counter
DbRow(role, content) ==
  [id |-> next_history_id, user_uuid |-> "u1", platform |-> Discord,
   role |-> role, content |-> content, message_type |-> "conversation",
   context |-> None, created_at |-> now]

DbBlocks ==
  {[rows |-> r, commits |-> c, raises |-> x] :
     r \in {<<>>} \cup {<<DbRow(role, content)>> :
                          role \in DbRoles, content \in DbContents},
     c \in BOOLEAN, x \in BOOLEAN}

\* `with get_db() as db: <block>`
ScopedBlock(block, commit_outcome) ==
  LET r == get_db(history, block, commit_outcome)
  IN  /\ Len(history) + Len(block.rows) <= MaxDbRows
      /\ history' = r.table
      /\ next_history_id' = Len(r.table) + 1
      /\ ret' = [op |-> "get_db", block |-> block,
                 commit_outcome |-> commit_outcome, before |-> history,
                 calls |-> r.calls, raised |-> r.raised, closed |-> r.closed]
      /\ UNCHANGED <<now, ai_provider, loop, tasks, users, identities,
                     onboarding_states, compressed, conversations,
                     user_contexts, summaries, sweeps, memories>>

InitDb ==
  /\ now \in StartTimes
  /\ ai_provider = TRUE
  /\ loop = IdleLoop
  /\ tasks = IdleTasks
  /\ EmptyTables

NextDb ==
  \E b \in DbBlocks, c \in {"ok", "raise"} : ScopedBlock(b, c)

SpecDb == InitDb /\ [][NextDb]_vars

(* Properties of the transactional scope *)

Scoped == ret.op = "get_db"

\* C23: a block that completes normally is committed (and the rows it left
\* pending are in the table once the commit succeeds); a block that raises
\* is rolled back, nothing it left pending reaches the table, and the
\* exception the caller sees is the block's; the session is closed in both
\* cases.
C23_ScopedTransaction ==
  Scoped =>
    /\ ret.closed
    /\ ret.calls[Len(ret.calls)] = "close"
    /\ ~ret.block.raises =>
         /\ ret.calls[1] = "commit"
         /\ ret.commit_outcome = "ok" =>
              /\ history = ret.before \o ret.block.rows
              /\ ret.raised = NoException
    /\ ret.block.raises =>
         /\ ret.calls = <<"rollback", "close">>
         /\ ret.raised = BlockError
         /\ history = IF ret.block.commits THEN ret.before \o ret.block.rows
                      ELSE ret.before

\* a block that added a row and raised before committing it: the table is
\* as it was
C23_Witness ==
  /\ Scoped
  /\ ret.block.raises
  /\ ~ret.block.commits
  /\ ret.block.rows # <<>>
  /\ history = ret.before
  /\ Len(ret.before) = 1

----------------------------------------------------------------------------
(* TemporalContext.  A timestamp is a value of the clock: minutes since a   *)
(* Monday 00:00, so weekday() is 0 for Monday and 6 for Sunday.             *)

hour(timestamp) == (timestamp \div 60) % 24

weekday(timestamp) == (timestamp \div 1440) % 7

\* strftime("%A").lower()
day_name(timestamp) ==
  <<"monday", "tuesday", "wednesday", "thursday", "friday", "saturday",
    "sunday">>[weekday(timestamp) + 1]

\* a classification whose morning begins at 6
get_time_of_day_late_morning(timestamp) ==
  IF 6 <= hour(timestamp) /\ hour(timestamp) < 12 THEN "morning"
  ELSE IF 12 <= hour(timestamp) /\ hour(timestamp) < 17 THEN "afternoon"
  ELSE IF 17 <= hour(timestamp) /\ hour(timestamp) < 21 THEN "evening"
  ELSE "night"

get_time_of_day(timestamp) ==
  IF 5 <= hour(timestamp) /\ hour(timestamp) < 12 THEN "morning"
  ELSE IF 12 <= hour(timestamp) /\ hour(timestamp) < 17 THEN "afternoon"
  ELSE IF 17 <= hour(timestamp) /\ hour(timestamp) < 21 THEN "evening"
  ELSE "night"

get_day_context(timestamp) ==
  IF weekday(timestamp) >= 5 THEN "weekend" ELSE "weekday"

FridayNote == "it's friday afternoon - weekend vibes incoming!"
MondayNote == "it's monday morning - fresh start to the week"
LateNote == "it's pretty late - might be time to wind down soon"
WeekendNote == "it's a weekend morning - perfect for relaxed activities"

\* a cascade that tests the late-night condition first
get_special_context_late_first(timestamp) ==
  IF hour(timestamp) >= 23 \/ hour(timestamp) < 3 THEN LateNote
  ELSE IF day_name(timestamp) = "friday" /\ hour(timestamp) >= 15
  THEN FridayNote
  ELSE IF /\ day_name(timestamp) = "monday"
          /\ 6 <= hour(timestamp) /\ hour(timestamp) < 12
  THEN MondayNote
  ELSE IF /\ get_day_context(timestamp) = "weekend"
          /\ 7 <= hour(timestamp) /\ hour(timestamp) < 11
  THEN WeekendNote
  ELSE ""

get_special_context(timestamp) ==
  IF day_name(timestamp) = "friday" /\ hour(timestamp) >= 15 THEN FridayNote
  ELSE IF /\ day_name(timestamp) = "monday"
          /\ 6 <= hour(timestamp) /\ hour(timestamp) < 12
  THEN MondayNote
  ELSE IF hour(timestamp) >= 23 \/ hour(timestamp) < 3 THEN LateNote
  ELSE IF /\ get_day_context(timestamp) = "weekend"
          /\ 7 <= hour(timestamp) /\ hour(timestamp) < 11
  THEN WeekendNote
  ELSE ""

\* every hour of one week, at its first and at its last minute
Timestamps == {d * 1440 + h * 60 + m : d \in 0..6, h \in 0..23, m \in {0, 59}}

UnchangedByTemporal ==
  UNCHANGED <<now, ai_provider, loop, tasks, users, identities, onboarding_states,
              history, next_history_id, compressed, conversations,
              user_contexts, summaries, sweeps, memories>>

GetTimeOfDay ==
  /\ ret' = [op |-> "get_time_of_day", timestamp |-> now,
             result |-> get_time_of_day(now)]
  /\ UnchangedByTemporal

GetSpecialContext ==
  /\ ret' = [op |-> "get_special_context", timestamp |-> now,
             result |-> get_special_context(now)]
  /\ UnchangedByTemporal

InitTemporal ==
  /\ now \in Timestamps
  /\ ai_provider = TRUE
  /\ loop = IdleLoop
  /\ tasks = IdleTasks
  /\ EmptyTables

NextTemporal ==
  \/ GetTimeOfDay
  \/ GetSpecialContext

SpecTemporal == InitTemporal /\ [][NextTemporal]_vars

(* Properties of the temporal context *)

\* the hours of the day, as minutes of the first day
DayHours == {h * 60 : h \in 0..23}

\* the hours a class begins at: its hours whose preceding hour, on the
\* 24-hour clock, is of another class
ClassStarts(c) ==
  {t \in DayHours : /\ get_time_of_day(t) = c
                    /\ get_time_of_day((t + 1380) % 1440) # c}

\* C24: every hour 0..23 is of exactly one class, morning for [5,12),
\* afternoon for [12,17), evening for [17,21) and night for every other
\* hour, and each class is one contiguous half-open interval of the 24-hour
\* clock (night runs from 21 through midnight to 5).
C24_TimeOfDay ==
  ret.op = "get_time_of_day" =>
    LET h == (ret.timestamp \div 60) % 24
    IN  /\ ret.result \in {"morning", "afternoon", "evening", "night"}
        /\ ret.result = "morning" <=> h \in 5..11
        /\ ret.result = "afternoon" <=> h \in 12..16
        /\ ret.result = "evening" <=> h \in 17..20
        /\ ret.result = "night" <=> h \in (0..4) \cup (21..23)
        /\ ClassStarts("morning") = {5 * 60}
        /\ ClassStarts("afternoon") = {12 * 60}
        /\ ClassStarts("evening") = {17 * 60}
        /\ ClassStarts("night") = {21 * 60}

\* the last minute of the night and the first of the morning
C24_Witness ==
  /\ ret.op = "get_time_of_day"
  /\ ret.timestamp % 1440 = 4 * 60 + 59
  /\ ret.result = "night"

\* the conditions of the special note in their order, for weekday d
\* (Monday 0) and hour h
SpecialConditions(d, h) ==
  <<d = 4 /\ h >= 15, d = 0 /\ h \in 6..11, h >= 23 \/ h < 3,
    d \in {5, 6} /\ h \in 7..10>>

SpecialNotes == <<FridayNote, MondayNote, LateNote, WeekendNote>>

\* C25: for every weekday and hour the special context is the note of the
\* first condition that holds, in the order Friday from 15, Monday [6,12),
\* late night (from 23 or before 3), weekend [7,11), and the empty string
\* when none holds; one note, never two.
C25_SpecialContext ==
  ret.op = "get_special_context" =>
    LET d == (ret.timestamp \div 1440) % 7
        h == (ret.timestamp \div 60) % 24
        holds == {i \in 1..4 : SpecialConditions(d, h)[i]}
    IN  /\ holds = {} => ret.result = ""
        /\ holds # {} =>
             \E i \in holds : /\ \A j \in holds : i <= j
                              /\ ret.result = SpecialNotes[i]
        /\ (d = 4 /\ h = 23) => ret.result = FridayNote
        /\ (d = 5 /\ h = 1) => ret.result = LateNote

\* Friday 23:00, where the Friday and the late-night condition both hold
C25_Witness ==
  /\ ret.op = "get_special_context"
  /\ ret.timestamp = 4 * 1440 + 23 * 60
  /\ ret.result = FridayNote

----------------------------------------------------------------------------
(* The in-memory working set of one conversation: get_or_create calls of    *)
(* the manager and add_message calls on the Conversation it returned.       *)

MaxCapRows == 102

CapUser == "u1"

\* ConversationManager.get_or_create(user_uuid, platform)
CapGetOrCreate ==
  /\ ApplyStore(get_or_create(Store, CapUser, Discord))
  /\ ret' = [op |-> "get_or_create", user_uuid |-> CapUser,
             before |-> conversations[ConvKey(CapUser, Discord)].messages]
  /\ UnchangedButStore

\* add_message on the Conversation object an earlier get_or_create returned
CapAddMessage ==
  /\ conversations[ConvKey(CapUser, Discord)].loaded
  /\ Len(history) < MaxCapRows
  /\ ApplyStore(add_message(Store, CapUser, Discord, "user", Orig(40),
                            "conversation"))
  /\ ret' = [op |-> "add_message", user_uuid |-> CapUser]
  /\ UnchangedButStore

NextCap ==
  \/ CapGetOrCreate
  \/ CapAddMessage

SpecCap == InitMem /\ [][NextCap]_vars

(* Properties of the working set *)

\* C27: after any sequence of get_or_create and add_message calls the
\* in-memory list of a conversation holds at most max_messages_in_memory
\* (100) messages.
C27_WorkingSetCap ==
  \A k \in DOMAIN conversations :
    Len(conversations[k].messages) <= max_messages_in_memory

----------------------------------------------------------------------------
(* Handlers of the chat service running as concurrent asyncio tasks on one  *)
(* conversation: inbound turns (one task per Discord message event) and     *)
(* scheduled generations.  A handler runs alone up to an await of the       *)
(* provider (the compression call for a text of 100 characters or more,     *)
(* the generation call) and the other tasks run while it waits.             *)

MaxInterRows == 4

InterUser == "u1"
InterPlatformUserId == "p1"

\* the texts: each message has its own, so that an entry of a history read
\* names the message it derives from
TurnContent(t) == Orig(116 + 4 * t)
TurnResponse(t) == Orig(128 + 4 * t)
ScheduledResponse(t) == Orig(140 + 4 * t)

\* the rows a task has yet to insert
PendingRows(t) ==
  IF tasks[t].pc \in {"compress_user", "generate", "scheduled_generate"}
  THEN 1 ELSE 0

RECURSIVE SumPending(_)
SumPending(T) ==
  IF T = {} THEN 0
  ELSE LET t == CHOOSE x \in T : TRUE
       IN  PendingRows(t) + SumPending(T \ {t})

Last(seq) == seq[Len(seq)]

\* a compression that looks the last message up when the provider has
\* answered
compress_target_at_store(last_msg, messages) == Last(messages)

\* compress_last_message: `last_msg = self.messages[-1]` is taken before the
\* provider is awaited
compress_target(last_msg, messages) == last_msg

UnchangedByTask ==
  UNCHANGED <<now, ai_provider, loop, users, identities, onboarding_states,
              user_contexts, summaries, sweeps, memories>>

\* after add_message: compress_last_message up to its await, or to its end
\* when compress_message returns the short text at once
StartCompression(t, st, waiting, after) ==
  LET last_msg == Last(st.conversations[ConvKey(InterUser, Discord)].messages)
  IN  IF last_msg.content.len < min_length_to_compress
      THEN /\ ApplyStore([st EXCEPT !.compressed =
                 store_compressed_message(@, last_msg.db_id, InterUser,
                    Discord, last_msg.role, last_msg.content,
                    compress_message(last_msg.content, "ok"))])
           /\ tasks' = [tasks EXCEPT ![t] = [pc |-> after,
                                             user_uuid |-> InterUser,
                                             last_msg |-> last_msg]]
      ELSE /\ ApplyStore(st)
           /\ tasks' = [tasks EXCEPT ![t] = [pc |-> waiting,
                                             user_uuid |-> InterUser,
                                             last_msg |-> last_msg]]

\* process_message for an onboarded user, up to the await of the user
\* message's compression
BeginTurn(t) ==
  /\ tasks[t].pc = "idle"
  /\ Len(history) + SumPending(DOMAIN tasks) + 2 <= MaxInterRows
  /\ get_or_create_user(Discord, InterPlatformUserId).user_uuid = InterUser
  /\ ~needs_onboarding(InterUser)
  /\ ~is_user_onboarding(Discord, InterPlatformUserId)
  /\ ai_provider
  /\ StartCompression(t,
        add_message(get_or_create(Store, InterUser, Discord), InterUser,
                    Discord, "user", TurnContent(t), "conversation"),
        "compress_user", "generate")
  /\ ret' = [op |-> "begin_turn", task |-> t]
  /\ UnchangedByTask

\* the compression provider answers: store_compressed_message
FinishCompression(t, outcome) ==
  LET target == compress_target(tasks[t].last_msg,
                   conversations[ConvKey(InterUser, Discord)].messages)
  IN  /\ tasks[t].pc \in {"compress_user", "compress_assistant",
                          "compress_scheduled"}
      /\ compressed' =
           store_compressed_message(compressed, target.db_id, InterUser,
              Discord, target.role, target.content,
              compress_message(target.content, outcome))
      /\ tasks' = [tasks EXCEPT ![t] =
                     IF tasks[t].pc = "compress_user"
                     THEN [@ EXCEPT !.pc = "generate"]
                     ELSE IdleTask]
      /\ ret' = [op |-> "store_compressed_message", task |-> t,
                 db_id |-> target.db_id]
      /\ UNCHANGED <<history, next_history_id, conversations>>
      /\ UnchangedByTask

\* the generation provider answers the turn: the assistant message
FinishGenerate(t) ==
  /\ tasks[t].pc = "generate"
  /\ StartCompression(t,
        add_message(Store, InterUser, Discord, "assistant", TurnResponse(t),
                    "conversation"),
        "compress_assistant", "idle")
  /\ ret' = [op |-> "process_message", task |-> t]
  /\ UnchangedByTask

\* generate_scheduled_message for the same user, up to the await of the
\* generation
BeginScheduled(t) ==
  /\ tasks[t].pc = "idle"
  /\ Len(history) + SumPending(DOMAIN tasks) + 1 <= MaxInterRows
  /\ get_or_create_user(Discord, InterPlatformUserId).user_uuid = InterUser
  /\ ~needs_onboarding(InterUser)
  /\ ~is_user_onboarding(Discord, InterPlatformUserId)
  /\ ai_provider
  /\ ApplyStore(get_or_create(Store, InterUser, Discord))
  /\ tasks' = [tasks EXCEPT ![t] = [IdleTask EXCEPT
                                      !.pc = "scheduled_generate",
                                      !.user_uuid = InterUser]]
  /\ ret' = [op |-> "begin_scheduled", task |-> t]
  /\ UnchangedByTask

\* the generation provider answers the scheduled generation
FinishScheduledGenerate(t) ==
  /\ tasks[t].pc = "scheduled_generate"
  /\ StartCompression(t,
        add_message(Store, InterUser, Discord, "assistant",
                    ScheduledResponse(t), "scheduled"),
        "compress_scheduled", "idle")
  /\ ret' = [op |-> "generate_scheduled_message", task |-> t]
  /\ UnchangedByTask

\* CompressorService.get_compressed_history(user, platform, limit)
ReadCompressedHistory(limit) ==
  /\ ret' = [op |-> "get_compressed_history", limit |-> limit,
             result |-> get_compressed_history(compressed, InterUser, Discord,
                                               limit)]
  /\ UNCHANGED <<history, next_history_id, compressed, conversations, tasks>>
  /\ UnchangedByTask

\* Conversation.get_hybrid_conversation_history(limit, full_message_count)
ReadHybridHistory(limit, full_message_count) ==
  /\ conversations[ConvKey(InterUser, Discord)].loaded
  /\ ret' = [op |-> "get_hybrid_conversation_history", limit |-> limit,
             full_message_count |-> full_message_count,
             result |-> get_hybrid_conversation_history(Store, InterUser,
                           Discord, limit, full_message_count, TRUE).messages]
  /\ UNCHANGED <<history, next_history_id, compressed, conversations, tasks>>
  /\ UnchangedByTask

\* the account p1 of user u1, onboarded, with no message yet
InitInter ==
  /\ now \in StartTimes
  /\ ai_provider = TRUE
  /\ loop = IdleLoop
  /\ tasks = IdleTasks
  /\ users = [u \in UUIDs |->
                IF u = InterUser
                THEN [exists |-> TRUE, preferred_name |-> "ann",
                      is_active |-> TRUE]
                ELSE NoUserRow]
  /\ identities = <<[user_uuid |-> InterUser, platform |-> Discord,
                     platform_user_id |-> InterPlatformUserId]>>
  /\ onboarding_states = [k \in Platforms \X AnyId |-> None]
  /\ history = <<>>
  /\ next_history_id = 1
  /\ compressed = <<>>
  /\ conversations = [k \in Platforms \X UUIDs |-> NoConversation]
  /\ user_contexts = [k \in Platforms \X UUIDs |-> NoContext]
  /\ summaries = <<>>
  /\ sweeps = <<>>
  /\ memories = <<>>
  /\ ret = [op |-> "init"]

NextInter ==
  \/ \E t \in DOMAIN tasks : BeginTurn(t)
  \/ \E t \in DOMAIN tasks : FinishCompression(t, "ok")
  \/ \E t \in DOMAIN tasks : FinishGenerate(t)
  \/ \E t \in DOMAIN tasks : BeginScheduled(t)
  \/ \E t \in DOMAIN tasks : FinishScheduledGenerate(t)
  \/ ReadCompressedHistory(MaxInterRows)
  \/ \E f \in {0, 2} : ReadHybridHistory(MaxInterRows, f)

SpecInter == InitInter /\ [][NextInter]_vars

(* Properties of the interleaved handlers *)

\* the id of the raw message an entry's content derives from: the message
\* with that content, or the one whose compression it is
SourceId(content) ==
  LET S == {i \in DOMAIN history :
              \/ history[i].content = content
              \/ /\ history[i].content.len >= min_length_to_compress
                 /\ ModelText(history[i].content.len) = content}
  IN  IF S = {} THEN 0 ELSE history[CHOOSE i \in S : TRUE].id

\* the entries derive from raw messages of increasing id, which is the
\* order of the raw log (creation time, then id)
InRawOrder(entries) ==
  \A i, j \in DOMAIN entries :
    i < j => SourceId(entries[i].content) < SourceId(entries[j].content)

\* C28: whatever the interleaving of appends and compressions, the entries
\* get_hybrid_conversation_history and get_compressed_history return are in
\* the relative order of the raw messages they derive from.
C28_ReadsKeepOrder ==
  /\ ret.op = "get_hybrid_conversation_history" => InRawOrder(ret.result)
  /\ ret.op = "get_compressed_history" => InRawOrder(ret.result)

\* C30: in every state reached by interleaved turns and scheduled
\* generations on one conversation, no two compressed rows reference the
\* same raw message, and every compressed row has the role, user and
\* platform of the raw message whose id it references.
C30_OneToOne ==
  /\ \A i, j \in DOMAIN compressed :
       compressed[i].conversation_history_id
         = compressed[j].conversation_history_id => i = j
  /\ \A i \in DOMAIN compressed :
       \E k \in DOMAIN history :
         /\ history[k].id = compressed[i].conversation_history_id
         /\ history[k].role = compressed[i].role
         /\ history[k].user_uuid = compressed[i].user_uuid
         /\ history[k].platform = compressed[i].platform

\* a turn's compression was stored after that of a scheduled message
\* appended later, while both handlers were running
C30_Witness ==
  \E i, j \in DOMAIN compressed :
    /\ i < j
    /\ compressed[i].conversation_history_id
         > compressed[j].conversation_history_id
    /\ \E k \in DOMAIN history :
         /\ history[k].id = compressed[i].conversation_history_id
         /\ history[k].message_type = "scheduled"

----------------------------------------------------------------------------
(* The readers of the memory store against memories that carry a TTL.       *)

\* the arguments of the create_memory calls: a core and a regular memory of
\* u1, both with a TTL, and a core memory without one
ExpiryInputs ==
  {[user_uuid |-> "u1", memory_type |-> "FACT", weighting |-> NoValue,
    core |-> TRUE, ttl_seconds |-> TTLSeconds],
   [user_uuid |-> "u1", memory_type |-> "FACT", weighting |-> NoValue,
    core |-> FALSE, ttl_seconds |-> TTLSeconds],
   [user_uuid |-> "u1", memory_type |-> "PREFERENCE", weighting |-> NoValue,
    core |-> TRUE, ttl_seconds |-> NoValue]}

NextExpiry ==
  \/ \E a \in ExpiryInputs : CreateMemory(a)
  \/ \E e \in BOOLEAN : GetActiveMemories("u1", None, e)
  \/ GetCoreMemories("u1")
  \/ \E c \in 0..MaxCount : GetMemoriesForPrompt("u1", c)
  \/ \E t \in MemInstants : Tick(t)

SpecExpiry == InitMem /\ [][NextExpiry]_vars

\* the operation that just returned is a read that is to leave expired
\* memories out
ExpiryRead ==
  \/ ret.op = "get_active_memories" /\ ~ret.include_expired
  \/ ret.op = "get_core_memories"
  \/ ret.op = "get_memories_for_prompt"

\* C31: no read of the memory store (get_active_memories without
\* include_expired, get_core_memories, get_memories_for_prompt) returns a
\* memory whose TTL has elapsed, core memories included.
C31_NoExpiredRead ==
  ExpiryRead => \A i \in Range(ret.result) : ~Elapsed(i)

----------------------------------------------------------------------------
(* Properties of the two proactive paths together (the scheduling           *)
(* specification runs both: send_scheduled_message of the scheduler         *)
(* service and send_scheduled_dm of the Discord interface)                  *)

\* the operation that just returned handed a proactive message to delivery
Emitted ==
  /\ ret.op \in {"send_scheduled_message", "send_scheduled_dm"}
  /\ ret.kind # "none"

\* C32: every proactive message that is emitted (persisted as scheduled or
\* delivered) comes out of an operation in which
\* should_send_scheduled_message was evaluated for the user and returned
\* true.
C32_PolicyBeforeEmission ==
  Emitted => ret.op = "send_scheduled_message" /\ ret.decision

\* C33: a positive decision of send_scheduled_message for an onboarded user
\* never hands the onboarding welcome to delivery, and never leaves a
\* PlatformIdentity (with its User) that no platform account stands behind:
\* the identities are those of the accounts that wrote to the bot.
C33_DecisionKeepsUsers ==
  /\ (ret.op = "send_scheduled_message" /\ ret.decision)
       => ret.kind # "welcome"
  /\ \A i \in DOMAIN identities :
       identities[i].platform_user_id \in PlatformUserIds

----------------------------------------------------------------------------
(* Properties of generate_scheduled_message during onboarding *)

\* the account has a user who is in the onboarding flow: its name is awaited,
\* or its name is given and the answer for the core memory is awaited
InOnboardingFlow(platform_user_id) ==
  /\ ~is_new_user(Discord, platform_user_id)
  /\ \/ onboarding_states[StateKey(Discord, platform_user_id)]
          \in {"name", "memory"}
     \/ get_or_create_user(Discord, platform_user_id).user_name = None

\* C34: generate_scheduled_message for a user who is in the onboarding flow
\* returns None, persists no Message and no compressed row, and leaves the
\* in-memory conversations as they were.
C34_NothingDuringOnboarding ==
  [][(/\ ret'.op = "generate_scheduled_message"
      /\ InOnboardingFlow(ret'.from))
       => /\ ret'.kind = "none"
          /\ UNCHANGED <<history, compressed, conversations>>]_vars

\* a scheduled call that found its user awaiting the core-memory answer,
\* with a provider configured, and returned None
C34_Witness ==
  /\ ret.op = "generate_scheduled_message"
  /\ ret.kind = "none"
  /\ ret.raised = "none"
  /\ ai_provider
  /\ onboarding_states[StateKey(Discord, ret.from)] = "memory"
  /\ \E u \in DOMAIN users : users[u].preferred_name # None

----------------------------------------------------------------------------
(* Properties of the working set against the table *)

\* C35: every message of an in-memory working set has a persisted row: it
\* carries the id of a row of conversation_history.
C35_WorkingSetPersisted ==
  \A k \in DOMAIN conversations :
    \A i \in DOMAIN conversations[k].messages :
      \E j \in DOMAIN history :
        history[j].id = conversations[k].messages[i].db_id

----------------------------------------------------------------------------
(* ConversationManager.clear_conversation *)

\* clear_conversation: the in-memory conversation is dropped and the rows of
\* conversation_history for (user, platform) are deleted; the
\* compressed_messages table is not touched
clear_conversation(st, user_uuid, platform) ==
  [st EXCEPT
     !.conversations[ConvKey(user_uuid, platform)] = NoConversation,
     !.history = SelectSeq(@, LAMBDA r :
                   ~(r.user_uuid = user_uuid /\ r.platform = platform))]

ClearConversation(user_uuid) ==
  /\ ApplyStore(clear_conversation(Store, user_uuid, Discord))
  /\ ret' = [op |-> "clear_conversation", user_uuid |-> user_uuid,
             cleared |-> Len(RowsFor(history, user_uuid, Discord))]
  /\ UnchangedButStore

GetCompressedConversationHistory(user_uuid, limit) ==
  /\ ret' = [op |-> "get_compressed_conversation_history",
             user_uuid |-> user_uuid, limit |-> limit,
             result |-> get_compressed_history(compressed, user_uuid,
                                               Discord, limit)]
  /\ UNCHANGED <<history, next_history_id, compressed, conversations>>
  /\ UnchangedButStore

NextClear ==
  \/ \E a \in HistInputs : next_history_id <= MaxMessages /\ AddMessage(a)
  \/ CompressLastMessage("u1", "ok")
  \/ \E u \in HistUsers : ClearConversation(u)
  \/ \E l \in 1..MaxLimit : GetCompressedConversationHistory("u1", l)

SpecClear == InitMem /\ [][NextClear]_vars

\* C36: right after clear_conversation(user, platform), when nothing has been
\* appended since, the three history reads of that conversation are empty:
\* the working set, get_hybrid_conversation_history and
\* get_compressed_conversation_history.
C36_ClearedReadsEmpty ==
  ret.op = "clear_conversation" =>
    LET st == get_or_create(Store, ret.user_uuid, Discord)
    IN  /\ st.conversations[ConvKey(ret.user_uuid, Discord)].messages = <<>>
        /\ \A l \in 1..MaxLimit, f \in 0..MaxFull :
             get_hybrid_conversation_history(st, ret.user_uuid, Discord,
                                             l, f, TRUE).messages = <<>>
        /\ \A l \in 1..MaxLimit :
             get_compressed_history(compressed, ret.user_uuid, Discord, l)
               = <<>>

----------------------------------------------------------------------------
(* The active flag of a Memory under every operation of the store *)

\* the arguments of the create_memory calls: a memory with a TTL and one
\* without
ActiveInputs ==
  {[user_uuid |-> "u1", memory_type |-> "FACT", weighting |-> NoValue,
    core |-> FALSE, ttl_seconds |-> TTLSeconds],
   [user_uuid |-> "u1", memory_type |-> "PREFERENCE", weighting |-> NoValue,
    core |-> TRUE, ttl_seconds |-> NoValue]}

\* the rows of the memories table in this specification
MaxActiveRows == 2

NextActive ==
  \/ \E a \in ActiveInputs : Len(memories) < MaxActiveRows /\ CreateMemory(a)
  \/ \E e \in BOOLEAN : GetActiveMemories("u1", None, e)
  \/ GetCoreMemories("u1")
  \/ GetMemoriesForPrompt("u1", MaxCount)
  \/ \E i \in 1..MaxActiveRows : UpdateMemoryWeight(i, 2)
  \/ \E i \in 1..MaxActiveRows : DeactivateMemory(i)
  \/ \E t \in MemInstants : Tick(t)

SpecActive == InitMem /\ [][NextActive]_vars

\* the operations that return memories
MemoryRead(r) ==
  r.op \in {"get_active_memories", "get_core_memories",
            "get_memories_for_prompt"}

\* C37: a memory whose active flag is false keeps it false under every
\* operation of the store, no read returns a memory that was inactive when
\* the read began, and get_active_memories(include_expired=True) leaves
\* every flag as it was.
C37_ActiveMonotone ==
  [][/\ \A i \in DOMAIN memories :
          ~memories[i].is_active => ~memories'[i].is_active
     /\ MemoryRead(ret') =>
          \A i \in Range(ret'.result) : memories[i].is_active
     /\ (ret'.op = "get_active_memories" /\ ret'.include_expired) =>
          \A i \in DOMAIN memories :
            memories'[i].is_active = memories[i].is_active]_vars

\* a memory is inactive by deactivate_memory and another by its TTL, and
\* get_active_memories(include_expired=True) has just returned
C37_Witness ==
  /\ ret.op = "get_active_memories"
  /\ ret.include_expired
  /\ \E i \in DOMAIN memories : ~memories[i].is_active /\ ~Elapsed(i)
  /\ \E i \in DOMAIN memories : ~memories[i].is_active /\ Elapsed(i)

----------------------------------------------------------------------------
(* Failures inside a tick of the scheduling loop *)

\* C38: an exception raised while one user is handled leaves the tick
\* running: the loop is back at its inner for, where the remaining users of
\* the platform and then the remaining platforms are taken up.
C38_TickContinues ==
  ret.op = "loop_exception" => loop.pc = "users"

----------------------------------------------------------------------------
(* The drain specification: a backlog to which nothing is appended, and    *)
(* calls of process_user_summaries that are suspended in the provider call *)
(* of each iteration.  The provider call returns, with an answer or with   *)
(* an exception.                                                           *)

InitDrain ==
  /\ now = 1140
  /\ ai_provider = TRUE
  /\ loop = IdleLoop
  /\ tasks = IdleTasks
  /\ users = [u \in UUIDs |->
                IF u \in SumUsers
                THEN [exists |-> TRUE, preferred_name |-> "ann",
                      is_active |-> TRUE]
                ELSE NoUserRow]
  /\ identities = <<>>
  /\ onboarding_states = [k \in Platforms \X AnyId |-> None]
  /\ \E n \in InitialBacklogs :
       /\ history = BacklogRows(n)
       /\ next_history_id = n + 1
  /\ compressed = <<>>
  /\ conversations = [k \in Platforms \X UUIDs |-> NoConversation]
  /\ user_contexts = [k \in Platforms \X UUIDs |-> NoContext]
  /\ summaries = <<>>
  /\ sweeps = [s \in 1..MaxSweeps |-> IdleSweep]
  /\ memories = <<>>
  /\ ret = [op |-> "init"]

\* the calls of process_user_summaries that may be in progress at a time
DrainSweeps == {1, 2}

NextDrain ==
  \/ \E s \in DrainSweeps : SweepCall(s, "u1")
  \/ \E s \in DrainSweeps, o \in {"ok", "raise"} : SweepResume(s, o)

SpecDrain ==
  /\ InitDrain
  /\ [][NextDrain]_vars
  /\ \A s \in DrainSweeps :
       WF_vars(\E o \in {"ok", "raise"} : SweepResume(s, o))

\* the step is the return of the provider call of sweep s
Resumed(s) ==
  /\ sweeps[s].pc = "generate_response"
  /\ \/ ret'.op = "generate_response" /\ ret'.sweep = s
     \/ ret'.op = "process_user_summaries" /\ sweeps'[s].pc = "idle"

\* each successful iteration stores one summary after the ones there are,
\* puts the last summarized id at the last id of its chunk or beyond, and
\* is followed, if at all, by a chunk that begins beyond it; a failed
\* iteration ends the call and leaves the summaries as they were
IterationAdvances ==
  [][\A s \in DrainSweeps :
       Resumed(s) =>
         IF ret'.op = "process_user_summaries" /\ ret'.failed
         THEN summaries' = summaries
         ELSE /\ Len(summaries') = Len(summaries) + 1
              /\ SubSeq(summaries', 1, Len(summaries)) = summaries
              /\ get_last_summary_position(summaries', "u1", Discord)
                   >= sweeps[s].last_id
              /\ get_last_summary_position(summaries', "u1", Discord)
                   >= get_last_summary_position(summaries, "u1", Discord)
              /\ sweeps[s].last_id >= sweeps[s].first_id
              /\ sweeps'[s].pc = "generate_response"
                   => sweeps'[s].first_id > sweeps[s].last_id]_vars

\* a call that is suspended in an iteration returns
CallReturns ==
  \A s \in DrainSweeps :
    (sweeps[s].pc = "generate_response") ~> (sweeps[s].pc = "idle")

----------------------------------------------------------------------------
(* The weighting a created memory is stored with *)

\* the weightings given to create_memory: none, or a number
SuppliedWeightings == {NoValue, 0, 1, 2, 3}

\* create_memory for a user that exists; the returned record keeps the
\* arguments of the call
CreateWeighted(weighting, core) ==
  /\ Len(memories) < MaxActiveRows
  /\ memories' = create_memory("u1", "PREFERENCE", weighting, core, NoValue)
  /\ ret' = [op |-> "create_memory", raised |-> FALSE,
             id |-> Len(memories) + 1, weighting |-> weighting, core |-> core]
  /\ UnchangedButMemories

NextWeight ==
  \/ \E w \in SuppliedWeightings, c \in BOOLEAN : CreateWeighted(w, c)
  \/ \E i \in 1..MaxActiveRows : UpdateMemoryWeight(i, 2)
  \/ \E i \in 1..MaxActiveRows : DeactivateMemory(i)

SpecWeight == InitMem /\ [][NextWeight]_vars

\* C40: create_memory with core=False stores the weighting it is given,
\* whatever number that is, 0 included, and stores default_weighting when
\* it is given none.
C40_StoredWeighting ==
  (/\ ret.op = "create_memory"
   /\ ~ret.raised
   /\ ~ret.core)
    => memories[ret.id].weighting =
         IF ret.weighting = NoValue THEN default_weighting ELSE ret.weighting

====
